---- MODULE Spec2Model ----
(***************************************************************************)
(* OSC over TCP with SLIP framing (package pythonosctcp, version 2.0).     *)
(*                                                                         *)
(* Bytes are the integers 0..255, byte strings are sequences of bytes.     *)
(* Python indices are 0-based; PyAt, PyFind and PySlice keep them so.      *)
(*                                                                         *)
(* The specifications share the variables:                                 *)
(*   SpecSlip      the SLIP codec applied to bounded byte strings          *)
(*   SpecSegment   process_slip_message applied to receive buffers         *)
(*   SpecOsc       the OSC message codec applied to bounded messages       *)
(*   SpecParse     parse_osc_message applied to whole and cut-off buffers  *)
(*   SpecDispatch  the Dispatcher                                          *)
(*   Spec          one AsyncTCPClient, its tasks, connections and callers  *)
(*   SpecLive      one run() of the client under fair scheduling           *)
(*   SpecTwoRuns   two run() calls on one client that receives frames      *)
(***************************************************************************)
EXTENDS Integers, Sequences, FiniteSets, TLC

\* ------------------------------------------------------------------------
\* Bounds of the model
\* ------------------------------------------------------------------------

\* longest byte string handed to the SLIP codec
MaxLen == 3

\* most arguments of one OSC message
MaxArgs == 3

\* most calls of AsyncTCPClient.run
MaxRuns == 2

\* most calls of AsyncTCPClient.add_message
MaxMsgs == 3

\* most SLIP frames the peers send to the client
MaxFrames == 2

\* most faults of the network: a reset, a close by the peer, a failed write
MaxFaults == 1

\* the most calls of shutdown() on one client
MaxShutdowns == 2

\* the server addresses a front end configures, numbered in order of use
MaxAddresses == 2

\* the most calls of map, unmap and set_default_handler before a dispatch
MaxCalls == 2

\* ------------------------------------------------------------------------
\* Python helpers
\* ------------------------------------------------------------------------

\* data[i], i a 0-based index inside the string
PyAt(data, i) == data[i + 1]

\* the index range of data[lo:hi] as Python clamps it (negative = from the end)
PyClamp(n, i) == IF i < 0 THEN (IF n + i < 0 THEN 0 ELSE n + i) ELSE (IF i > n THEN n ELSE i)

\* data[lo:hi]
PySlice(data, lo, hi) ==
    LET n == Len(data)
        l == PyClamp(n, lo)
        h == PyClamp(n, hi)
    IN  IF h <= l THEN << >> ELSE SubSeq(data, l + 1, h)

\* data.find(bytes([b]), start): the least index >= start holding b, else -1
PyFind(data, b, start) ==
    LET s == PyClamp(Len(data), start)
        hits == { i \in s .. (Len(data) - 1) : PyAt(data, i) = b }
    IN  IF hits = {} THEN -1 ELSE CHOOSE i \in hits : \A j \in hits : i <= j

\* all sequences over S of length at most n
RECURSIVE SeqUpTo(_, _)
SeqUpTo(S, n) ==
    IF n = 0 THEN { << >> }
    ELSE LET shorter == SeqUpTo(S, n - 1)
         IN  shorter \cup { Append(s, x) : s \in { t \in shorter : Len(t) = n - 1 }, x \in S }

\* ------------------------------------------------------------------------
\* SLIP codec
\* ------------------------------------------------------------------------

SLIP_END == 192
SLIP_ESC == 219
SLIP_ESC_END == 220
SLIP_ESC_ESC == 221

\* the for loop of slip_encode, from 1-based position i on
RECURSIVE slip_encode_from(_, _, _)
slip_encode_from(data, i, encoded) ==
    IF i > Len(data) THEN encoded
    ELSE IF data[i] = SLIP_END
         THEN slip_encode_from(data, i + 1, encoded \o << SLIP_ESC, SLIP_ESC_END >>)
         ELSE IF data[i] = SLIP_ESC
              THEN slip_encode_from(data, i + 1, encoded \o << SLIP_ESC, SLIP_ESC_ESC >>)
              ELSE slip_encode_from(data, i + 1, Append(encoded, data[i]))

\* an encoder that frames the data without escaping any byte
slip_encode_raw(data) == << SLIP_END >> \o data \o << SLIP_END >>

slip_encode(data) == Append(slip_encode_from(data, 1, << SLIP_END >>), SLIP_END)

\* The while loop of slip_decode at 0-based index i.  After an escape byte
\* the code adds 1 to i, translates data[i] and continues WITHOUT stepping
\* over it, so the next pass reads the substitute byte again as plain data.
\* data[i] past the end raises IndexError: err is TRUE.
RECURSIVE slip_decode_from(_, _, _)
slip_decode_from(data, i, decoded) ==
    IF ~(i < Len(data)) THEN [err |-> FALSE, out |-> decoded]
    ELSE IF PyAt(data, i) = SLIP_END
         THEN slip_decode_from(data, i + 1, decoded)
         ELSE IF PyAt(data, i) = SLIP_ESC
              THEN IF ~(i + 1 < Len(data))
                   THEN [err |-> TRUE, out |-> << >>]
                   ELSE slip_decode_from(data, i + 1,
                            IF PyAt(data, i + 1) = SLIP_ESC_END THEN Append(decoded, SLIP_END)
                            ELSE IF PyAt(data, i + 1) = SLIP_ESC_ESC THEN Append(decoded, SLIP_ESC)
                            ELSE decoded)
              ELSE slip_decode_from(data, i + 1, Append(decoded, PyAt(data, i)))

slip_decode(data) == slip_decode_from(data, 0, << >>)

\* The while loop of process_slip_message: a frame ends at the first
\* SLIP_END found at index 1 or later.
RECURSIVE process_slip_message_loop(_, _)
process_slip_message_loop(messages, buffer) ==
    IF PyFind(buffer, SLIP_END, 0) # -1
    THEN LET end_idx == PyFind(buffer, SLIP_END, 1) + 1
         IN  IF end_idx > 1
             THEN process_slip_message_loop(Append(messages, PySlice(buffer, 0, end_idx)),
                                            PySlice(buffer, end_idx, Len(buffer)))
             ELSE [messages |-> messages, buffer |-> buffer]
    ELSE [messages |-> messages, buffer |-> buffer]

\* a segmenter that returns the frames and forgets the bytes left over
process_slip_message_drop(buffer) ==
    [messages |-> process_slip_message_loop(<< >>, buffer).messages, buffer |-> << >>]

\* a segmenter that returns each frame without its closing sentinel
process_slip_message_open(buffer) ==
    LET segmented == process_slip_message_loop(<< >>, buffer)
    IN  [messages |-> [i \in 1 .. Len(segmented.messages) |->
                          SubSeq(segmented.messages[i], 1, Len(segmented.messages[i]) - 1)],
         buffer |-> segmented.buffer]

\* a segmenter with an if in place of the while: it returns the first frame
\* and leaves every later one in the buffer
process_slip_message_first(buffer) ==
    IF PyFind(buffer, SLIP_END, 0) # -1 /\ PyFind(buffer, SLIP_END, 1) + 1 > 1
    THEN LET end_idx == PyFind(buffer, SLIP_END, 1) + 1
         IN  [messages |-> << PySlice(buffer, 0, end_idx) >>,
              buffer |-> PySlice(buffer, end_idx, Len(buffer))]
    ELSE [messages |-> << >>, buffer |-> buffer]

\* a segmenter that looks for the closing sentinel from index 0, and so finds
\* the opening one
process_slip_message_from0(buffer) ==
    IF PyFind(buffer, SLIP_END, 0) # -1 /\ PyFind(buffer, SLIP_END, 0) + 1 > 1
    THEN LET end_idx == PyFind(buffer, SLIP_END, 0) + 1
         IN  [messages |-> << PySlice(buffer, 0, end_idx) >>,
              buffer |-> PySlice(buffer, end_idx, Len(buffer))]
    ELSE [messages |-> << >>, buffer |-> buffer]

process_slip_message(buffer) == process_slip_message_loop(<< >>, buffer)

\* ------------------------------------------------------------------------
\* OSC message codec
\* ------------------------------------------------------------------------
\* A Python str is the sequence of its code points.  An argument is a record
\* [type, val]: val is <<n>> for the int n, <<1>> or <<0>> for True or False,
\* the code points of a str, the 4 bytes of the nearest IEEE-754 single and a
\* flag for a float (the flag is 1 when the double is not that single), and
\* << >> for None.

IntArg(n) == [type |-> "int", val |-> << n >>]
BoolArg(b) == [type |-> "bool", val |-> << IF b THEN 1 ELSE 0 >>]
StrArg(s) == [type |-> "str", val |-> s]
FloatArg(single, inexact) == [type |-> "float", val |-> Append(single, inexact)]
NoneArg == [type |-> "NoneType", val |-> << >>]

\* isinstance(arg, cls): bool is a subclass of int
isinstance(arg, cls) ==
    \/ arg.type = cls
    \/ arg.type = "bool" /\ cls = "int"

\* s.startswith(prefix) for a one-element prefix
startswith(s, c) == Len(s) >= 1 /\ s[1] = c

\* str.encode(): UTF-8 of code points below 0x800
RECURSIVE utf8_encode(_)
utf8_encode(s) ==
    IF s = << >> THEN << >>
    ELSE (IF s[1] < 128 THEN << s[1] >>
          ELSE << 192 + (s[1] \div 64), 128 + (s[1] % 64) >>) \o utf8_encode(Tail(s))

\* bytes.decode(): UTF-8 of one- and two-byte sequences; a lead 0xC0/0xC1, a
\* lone continuation byte, a missing continuation or a lead above 0xDF (none
\* is followed by its continuation bytes here) raise UnicodeDecodeError
RECURSIVE utf8_decode_from(_, _, _)
utf8_decode_from(b, i, out) ==
    IF i > Len(b) THEN [err |-> FALSE, out |-> out]
    ELSE IF b[i] < 128 THEN utf8_decode_from(b, i + 1, Append(out, b[i]))
    ELSE IF /\ b[i] >= 194 /\ b[i] <= 223
            /\ i + 1 <= Len(b) /\ b[i + 1] >= 128 /\ b[i + 1] <= 191
         THEN utf8_decode_from(b, i + 2, Append(out, (b[i] - 192) * 64 + (b[i + 1] - 128)))
    ELSE [err |-> TRUE, out |-> << >>]

utf8_decode(b) == utf8_decode_from(b, 1, << >>)

\* b'\x00' * n
Nuls(n) == [i \in 1 .. n |-> 0]

\* a block left at the length of its terminated text, with no padding
pad4_none(x) == x

\* x += b'\x00' * ((4 - len(x) % 4) % 4)
pad4(x) == x \o Nuls((4 - (Len(x) % 4)) % 4)

\* the 4 bytes of u, 0 <= u < 2^31, most significant first
BigEndian4(u) ==
    << (u \div 16777216) % 256, (u \div 65536) % 256, (u \div 256) % 256, u % 256 >>

\* each byte replaced by its complement
Complement(b) == [i \in 1 .. Len(b) |-> 255 - b[i]]

FromBigEndian4(b) == ((b[1] * 256 + b[2]) * 256 + b[3]) * 256 + b[4]

\* struct.pack('<i', n): the same four bytes, least significant byte first
pack_i_little(n) ==
    LET b == IF n < 0 THEN Complement(BigEndian4(-(n + 1))) ELSE BigEndian4(n)
    IN  [err |-> FALSE, out |-> << b[4], b[3], b[2], b[1] >>]

\* struct.pack('>i', n): two's complement, most significant byte first.  Every
\* integer of the model lies in the 32-bit signed range, so the struct.error
\* Python raises outside that range does not occur.
pack_i(n) ==
    [err |-> FALSE,
     out |-> IF n < 0 THEN Complement(BigEndian4(-(n + 1))) ELSE BigEndian4(n)]

\* struct.pack('>f', x): the bytes of the nearest single
pack_f(val) == [err |-> FALSE, out |-> SubSeq(val, 1, 4)]

\* struct.unpack('>i', b)[0]: struct.error unless len(b) = 4
unpack_i(b) ==
    IF Len(b) # 4 THEN [err |-> TRUE, value |-> NoneArg]
    ELSE [err |-> FALSE,
          value |-> IntArg(IF b[1] >= 128 THEN -FromBigEndian4(Complement(b)) - 1
                           ELSE FromBigEndian4(b))]

\* struct.unpack('>f', b): the single, exactly
unpack_f(b) ==
    IF Len(b) # 4 THEN [err |-> TRUE, value |-> NoneArg]
    ELSE [err |-> FALSE, value |-> FloatArg(b, 0)]

\* get_type_tag: the code point of the tag, or 0 for ValueError.  The int
\* test comes first, so a bool is tagged 'i'.
get_type_tag(arg) ==
    IF isinstance(arg, "int") THEN 105
    ELSE IF isinstance(arg, "float") THEN 102
    ELSE IF isinstance(arg, "str") THEN 115
    ELSE IF isinstance(arg, "bool") THEN (IF arg.val = << 1 >> THEN 84 ELSE 70)
    ELSE 0

\* the payload one argument adds to arg_values (the body of the for loop)
arg_payload(arg) ==
    IF isinstance(arg, "int") THEN pack_i(arg.val[1])
    ELSE IF isinstance(arg, "float") THEN pack_f(arg.val)
    ELSE IF isinstance(arg, "str") THEN [err |-> FALSE, out |-> pad4(utf8_encode(arg.val) \o << 0 >>)]
    ELSE IF isinstance(arg, "bool") THEN pack_i(IF arg.val = << 1 >> THEN 1 ELSE 0)
    ELSE [err |-> FALSE, out |-> << >>]

RECURSIVE arg_values_from(_, _, _)
arg_values_from(args, i, arg_values) ==
    IF i > Len(args) THEN [err |-> FALSE, out |-> arg_values]
    ELSE LET p == arg_payload(args[i])
         IN  IF p.err THEN [err |-> TRUE, out |-> << >>]
             ELSE arg_values_from(args, i + 1, arg_values \o p.out)

\* a create_osc_message without the test of lines 86-87 on the address
create_osc_message_unchecked(address, args) ==
    LET address_encoded == pad4(utf8_encode(address) \o << 0 >>)
        tags == [i \in 1 .. Len(args) |-> get_type_tag(args[i])]
        type_tag_encoded == pad4(utf8_encode(<< 44 >> \o tags) \o << 0 >>)
        arg_values == arg_values_from(args, 1, << >>)
    IN  IF \E i \in 1 .. Len(args) : tags[i] = 0
        THEN [err |-> "ValueError", out |-> << >>]
        ELSE IF arg_values.err
             THEN [err |-> "struct.error", out |-> << >>]
             ELSE [err |-> "", out |-> address_encoded \o type_tag_encoded \o arg_values.out]

\* create_osc_message(address, *args): err is "" or the exception raised
create_osc_message(address, args) ==
    IF ~startswith(address, 47) THEN [err |-> "ValueError", out |-> << >>]
    ELSE LET address_encoded == pad4(utf8_encode(address) \o << 0 >>)
             tags == [i \in 1 .. Len(args) |-> get_type_tag(args[i])]
             type_tag_encoded == pad4(utf8_encode(<< 44 >> \o tags) \o << 0 >>)
             arg_values == arg_values_from(args, 1, << >>)
         IN  IF \E i \in 1 .. Len(args) : tags[i] = 0
             THEN [err |-> "ValueError", out |-> << >>]
             ELSE IF arg_values.err
                  THEN [err |-> "struct.error", out |-> << >>]
                  ELSE [err |-> "", out |-> address_encoded \o type_tag_encoded \o arg_values.out]

\* current_pos moved up to the next multiple of 4
align4(current_pos) ==
    IF (current_pos % 4) # 0 THEN current_pos + (4 - (current_pos % 4)) ELSE current_pos

\* what parse_osc_message returns after printing the exception
ParseFailed == [address |-> << 0 >>, arguments |-> << >>, none |-> TRUE]

\* the for loop of parse_osc_message over type_tags from 1-based tag i on
RECURSIVE parse_arguments(_, _, _, _, _)
parse_arguments(bytes, type_tags, i, current_pos, arguments) ==
    IF i > Len(type_tags) THEN [err |-> FALSE, arguments |-> arguments]
    ELSE IF type_tags[i] = 105
         THEN LET u == unpack_i(PySlice(bytes, current_pos, current_pos + 4))
              IN  IF u.err THEN [err |-> TRUE, arguments |-> << >>]
                  ELSE parse_arguments(bytes, type_tags, i + 1, current_pos + 4,
                                       Append(arguments, u.value))
    ELSE IF type_tags[i] = 102
         THEN LET u == unpack_f(PySlice(bytes, current_pos, current_pos + 4))
              IN  IF u.err THEN [err |-> TRUE, arguments |-> << >>]
                  ELSE parse_arguments(bytes, type_tags, i + 1, current_pos + 4,
                                       Append(arguments, u.value))
    ELSE IF type_tags[i] = 115
         THEN LET string_end == PyFind(bytes, 0, current_pos)
                  value == utf8_decode(PySlice(bytes, current_pos, string_end))
              IN  IF value.err THEN [err |-> TRUE, arguments |-> << >>]
                  ELSE parse_arguments(bytes, type_tags, i + 1, align4(string_end + 1),
                                       Append(arguments, StrArg(value.out)))
    ELSE IF type_tags[i] = 84
         THEN parse_arguments(bytes, type_tags, i + 1, current_pos, Append(arguments, BoolArg(TRUE)))
    ELSE IF type_tags[i] = 70
         THEN parse_arguments(bytes, type_tags, i + 1, current_pos, Append(arguments, BoolArg(FALSE)))
    ELSE parse_arguments(bytes, type_tags, i + 1, current_pos, Append(arguments, NoneArg))

\* a parser that takes a message without type tags as malformed
parse_osc_message_tagged(bytes) ==
    IF ~startswith(bytes, 47) THEN ParseFailed
    ELSE LET address_end == PyFind(bytes, 0, 0)
             address == utf8_decode(PySlice(bytes, 0, address_end))
             type_tag_start == PyFind(bytes, 44, address_end) + 1
             type_tag_end == PyFind(bytes, 0, type_tag_start)
             type_tags == utf8_decode(PySlice(bytes, type_tag_start, type_tag_end))
             current_pos == align4(type_tag_end + 1)
         IN  IF address.err \/ type_tags.err \/ type_tags.out = << >> THEN ParseFailed
             ELSE LET parsed == parse_arguments(bytes, type_tags.out, 1, current_pos, << >>)
                  IN  IF parsed.err THEN ParseFailed
                      ELSE [address |-> address.out, arguments |-> parsed.arguments, none |-> FALSE]

\* parse_osc_message(data): (address, arguments), or (None, None) after any
\* exception.  find returns -1 when nothing is found and the slices that
\* follow take it as an index from the end.
parse_osc_message(bytes) ==
    IF ~startswith(bytes, 47) THEN ParseFailed
    ELSE LET address_end == PyFind(bytes, 0, 0)
             address == utf8_decode(PySlice(bytes, 0, address_end))
             type_tag_start == PyFind(bytes, 44, address_end) + 1
             type_tag_end == PyFind(bytes, 0, type_tag_start)
             type_tags == utf8_decode(PySlice(bytes, type_tag_start, type_tag_end))
             current_pos == align4(type_tag_end + 1)
         IN  IF address.err \/ type_tags.err THEN ParseFailed
             ELSE LET parsed == parse_arguments(bytes, type_tags.out, 1, current_pos, << >>)
                  IN  IF parsed.err THEN ParseFailed
                      ELSE [address |-> address.out, arguments |-> parsed.arguments, none |-> FALSE]

\* ------------------------------------------------------------------------
\* State
\* ------------------------------------------------------------------------

VARIABLES
    slip_pc,        \* SpecSlip: "start", "encoded", "decoded", "received", "feeding";
                    \*   SpecSegment: "buffered", "segmented"
    data,           \* SpecSlip: the byte string given to slip_encode
    encoded,        \* SpecSlip: slip_encode(data)
    decoded,        \* SpecSlip: the outcome of slip_decode(encoded), or of
                    \*   slip_decode(data) when data is decoded as received
    slip_fed,       \* SpecSlip: how many bytes of encoded have been given to
                    \*   process_slip_message so far
    slip_reads,     \* SpecSlip: in how many chunks they were given
    slip_buffer,    \* SpecSlip: the remainder process_slip_message returned last
    slip_messages,  \* SpecSlip: the frames process_slip_message has returned
    osc_pc,         \* SpecOsc: "start", "created", "parsed"
    address,        \* SpecOsc: the address given to create_osc_message
    args,           \* SpecOsc: the arguments given to create_osc_message
    message_byte,   \* SpecOsc: the outcome of create_osc_message(address, *args)
    parsed,         \* SpecOsc: the outcome of parse_osc_message(message_byte)
    osc_data,       \* SpecParse: the buffer given to parse_osc_message
    disp_pc,        \* SpecDispatch: position of the caller: "idle", "setup", "dispatched"
    handlers,       \* Dispatcher.handlers: [pattern, handlers] in insertion order
    default_handler,\* Dispatcher.default_handler: a handler, 0 for None
    calls,          \* SpecDispatch history: [op, pattern, handler, raised] per call
    disp_address,   \* SpecDispatch: the address given to dispatch
    disp_args,      \* SpecDispatch: the arguments given to dispatch
    invoked,        \* SpecDispatch history: [handler, address, arguments] of each
                    \*   handler invocation, in order
    message_buffer, \* AsyncTCPClient.message_buffer: queued [id, address, args]
    reader,         \* AsyncTCPClient.reader: a connection, 0 for None
    writer,         \* AsyncTCPClient.writer: a connection, 0 for None
    running,        \* AsyncTCPClient.running
    run_pc,         \* per call of run(): "idle", "connect", "gather", "done", "raised"
    send_pc,        \* per call of run(), its send_messages task:
                    \*   "none", "start", "loop", "done", "raised", "cancelled"
    listen_pc,      \* per call of run(), its listen task:
                    \*   "none", "start", "loop", "wait", "frames", "done", "raised"
    listen_reader,  \* the reader a listen task passed to listen(), 0 outside it
    rx_messages,    \* per listen task, the frames its for loop has still to handle
    shutdown_pc,    \* the call of shutdown(): "idle", "wait_closed", "gather", "done",
                    \*   "raised"
    main_pc,        \* the front-end task that awaits run(): "running", "cancelled"
    connect_pc,     \* a front end's own call of connect(): "idle", "connect", "done",
                    \*   "raised"
    server_address, \* AsyncTCPClient.server_address
    connect_to,     \* per call of connect(), the address given to open_connection,
                    \*   0 before the call (index 0: the front end's own call)
    n_shutdowns,    \* history: the number of shutdown() calls
    n_at_shutdown,  \* history: the number of add_message calls made before the
                    \*   latest shutdown() call
    conns,          \* the connections opened so far: [state, inbound, eof]
    budget,         \* what the callers and the network do at most in this behaviour
    n_faults,       \* history: the number of network faults
    n_added,        \* history: the number of add_message calls
    sent_frames,    \* history: the frames the peers have sent, in order
    n_before_run,   \* history: the add_message calls made before the first run()
    dequeued,       \* history: [id, by, added] of each message get_message returned
                    \*   (added: the number of add_message calls made by then)
    wire,           \* history: [conn, id, frame] of each frame written to a socket
    failed,         \* history: [id, by, why, address] of each dequeued message not
                    \*   written
    dispatched,     \* history: [address, arguments] of each handler invocation
    errors          \* history: [where, by, outcome] of each exception raised in a
                    \*   call of run() or in its tasks: outcome is "printed" (caught
                    \*   and printed), "silent" (caught, nothing printed) or
                    \*   "raised" (it ends the task)

segmentVars == << slip_fed, slip_reads, slip_buffer, slip_messages >>
slipVars == << slip_pc, data, encoded, decoded, segmentVars >>
oscVars == << osc_pc, address, args, message_byte, parsed, osc_data >>
clientVars == << message_buffer, reader, writer, running >>
taskVars == << run_pc, send_pc, listen_pc, listen_reader, rx_messages, shutdown_pc >>
envVars == << conns, sent_frames, n_faults, budget >>
historyVars == << n_added, n_before_run, dequeued, wire, failed, dispatched, errors >>
shutVars == << main_pc, n_shutdowns, n_at_shutdown >>
addrVars == << connect_pc, server_address, connect_to >>
frontVars == << shutVars, addrVars >>
dispVars == << disp_pc, handlers, default_handler, calls, disp_address, disp_args, invoked >>
vars ==
    << slipVars, oscVars, dispVars, clientVars, taskVars, envVars, historyVars, frontVars >>

Runs == 1 .. MaxRuns

\* reader.read(1024): the most bytes one read returns
MaxRead == 1024

\* the variables of a specification that is not the one running
SlipIdle ==
    /\ slip_pc = "idle"
    /\ data = << >>
    /\ encoded = << >>
    /\ decoded = [err |-> FALSE, out |-> << >>]
    /\ slip_fed = 0
    /\ slip_reads = 0
    /\ slip_buffer = << >>
    /\ slip_messages = << >>

OscIdle ==
    /\ osc_pc = "idle"
    /\ address = << >>
    /\ args = << >>
    /\ message_byte = [err |-> "", out |-> << >>]
    /\ parsed = ParseFailed
    /\ osc_data = << >>

\* Dispatcher.__init__: no pattern, no default handler; nothing called yet
DispIdle ==
    /\ disp_pc = "idle"
    /\ handlers = << >>
    /\ default_handler = 0
    /\ calls = << >>
    /\ disp_address = << >>
    /\ disp_args = << >>
    /\ invoked = << >>

\* AsyncTCPClient.__init__, no task created, no connection opened
ClientInit ==
    /\ message_buffer = << >>
    /\ reader = 0
    /\ writer = 0
    /\ running = FALSE
    /\ run_pc = [r \in Runs |-> "idle"]
    /\ send_pc = [r \in Runs |-> "none"]
    /\ listen_pc = [r \in Runs |-> "none"]
    /\ listen_reader = [r \in Runs |-> 0]
    /\ rx_messages = [r \in Runs |-> << >>]
    /\ shutdown_pc = "idle"
    /\ main_pc = "running"
    /\ connect_pc = "idle"
    /\ server_address = 1
    /\ connect_to = [r \in 0 .. MaxRuns |-> 0]
    /\ n_shutdowns = 0
    /\ n_at_shutdown = 0
    /\ conns = << >>
    /\ n_added = 0
    /\ sent_frames = << >>
    /\ n_before_run = 0
    /\ n_faults = 0
    /\ dequeued = << >>
    /\ wire = << >>
    /\ failed = << >>
    /\ dispatched = << >>
    /\ errors = { }

restVars == << clientVars, taskVars, envVars, historyVars, frontVars >>

\* no call and no network event
NoBudget ==
    [runs |-> 0, msgs |-> 0, frames |-> 0, faults |-> 0, connects |-> 0, alters |-> 0,
     shutdowns |-> 0, invalid |-> FALSE]

\* The behaviours explored: one run() sending, one run() sending over a faulty
\* network, one run() receiving, one run() doing both, several run() calls on
\* the same client, a retry after a change of address (gui_messager), and
\* connect() followed by run() (terminal_messager).  With invalid the front
\* end also queues messages that create_osc_message rejects.
Scenarios ==
    { [runs |-> 1, msgs |-> MaxMsgs, frames |-> 0, faults |-> 0, connects |-> 0,
       alters |-> 0, shutdowns |-> 1, invalid |-> TRUE],
      [runs |-> 1, msgs |-> 2, frames |-> 0, faults |-> MaxFaults, connects |-> 0,
       alters |-> 0, shutdowns |-> MaxShutdowns, invalid |-> TRUE],
      [runs |-> 1, msgs |-> 0, frames |-> MaxFrames, faults |-> MaxFaults, connects |-> 0,
       alters |-> 0, shutdowns |-> 1, invalid |-> TRUE],
      [runs |-> 1, msgs |-> 1, frames |-> 1, faults |-> MaxFaults, connects |-> 0,
       alters |-> 0, shutdowns |-> 1, invalid |-> TRUE],
      [runs |-> MaxRuns, msgs |-> 1, frames |-> 0, faults |-> 0, connects |-> 0,
       alters |-> 0, shutdowns |-> 1, invalid |-> FALSE],
      [runs |-> 2, msgs |-> 1, frames |-> 0, faults |-> 0, connects |-> 0,
       alters |-> MaxAddresses - 1, shutdowns |-> 1, invalid |-> FALSE],
      [runs |-> 1, msgs |-> 1, frames |-> 0, faults |-> 0, connects |-> 1,
       alters |-> 0, shutdowns |-> MaxShutdowns, invalid |-> TRUE] }

\* ------------------------------------------------------------------------
\* SpecSlip: the SLIP codec on bounded byte strings
\* ------------------------------------------------------------------------

\* the sentinel, the escape, both substitutes and two plain bytes ('/', 'A')
SlipBytes == { SLIP_END, SLIP_ESC, SLIP_ESC_END, SLIP_ESC_ESC, 47, 65 }

InitSlip ==
    /\ slip_pc = "start"
    /\ data \in SeqUpTo(SlipBytes, MaxLen)
    /\ encoded = << >>
    /\ decoded = [err |-> FALSE, out |-> << >>]
    /\ slip_fed = 0
    /\ slip_reads = 0
    /\ slip_buffer = << >>
    /\ slip_messages = << >>
    /\ OscIdle
    /\ DispIdle
    /\ ClientInit
    /\ budget = NoBudget

SlipEncode ==
    /\ slip_pc = "start"
    /\ encoded' = slip_encode(data)
    /\ slip_pc' = "encoded"
    /\ UNCHANGED << data, decoded, segmentVars, oscVars, dispVars, restVars >>

SlipDecode ==
    /\ slip_pc = "encoded"
    /\ decoded' = slip_decode(encoded)
    /\ slip_pc' = "decoded"
    /\ UNCHANGED << data, encoded, segmentVars, oscVars, dispVars, restVars >>

\* the longest output of slip_encode: every byte escaped, and the two ends
MaxChunk == 2 * MaxLen + 2

\* slip_decode(data): data taken as bytes received, not made by slip_encode
SlipDecodeReceived ==
    /\ slip_pc = "start"
    /\ decoded' = slip_decode(data)
    /\ slip_pc' = "received"
    /\ UNCHANGED << data, encoded, segmentVars, oscVars, dispVars, restVars >>

\* messages, buffer = process_slip_message(buffer + chunk), chunk the next k
\* bytes of encoded: the caller keeps the remainder for the next call
SlipFeed(k) ==
    /\ slip_pc \in { "encoded", "feeding" }
    /\ k <= Len(encoded) - slip_fed
    /\ LET chunk == SubSeq(encoded, slip_fed + 1, slip_fed + k)
           segmented == process_slip_message(slip_buffer \o chunk)
       IN  /\ slip_messages' = slip_messages \o segmented.messages
           /\ slip_buffer' = segmented.buffer
    /\ slip_fed' = slip_fed + k
    /\ slip_reads' = slip_reads + 1
    /\ slip_pc' = "feeding"
    /\ UNCHANGED << data, encoded, decoded, oscVars, dispVars, restVars >>

NextSlip ==
    \/ SlipEncode
    \/ SlipDecode
    \/ SlipDecodeReceived
    \/ \E k \in 1 .. MaxChunk : SlipFeed(k)

SpecSlip == InitSlip /\ [][NextSlip]_vars

\* ------------------------------------------------------------------------
\* SpecSegment: process_slip_message on the bytes of a receive buffer
\* ------------------------------------------------------------------------
\* The buffer is what listen() has collected from reader.read (lines 263 and
\* 267): any bytes at all, or whole frames sent back to back, with or without
\* the start of another frame after them.

FramePayloads == { << >>, << 65, 66 >>, << 67, 68 >>, << SLIP_ESC, SLIP_ESC_END >> }

Framed(payload) == << SLIP_END >> \o payload \o << SLIP_END >>

SegFrames == { Framed(payload) : payload \in FramePayloads }

SegTails == { << >>, << SLIP_END >>, << SLIP_END, 65 >>, << SLIP_END, SLIP_ESC >> }

RECURSIVE Concat(_)
Concat(frames) ==
    IF frames = << >> THEN << >> ELSE Head(frames) \o Concat(Tail(frames))

SegmentBuffers ==
    SeqUpTo(SlipBytes, MaxLen)
        \cup { Concat(frames) \o tail : frames \in SeqUpTo(SegFrames, MaxFrames),
                                          tail \in SegTails }

InitSegment ==
    /\ slip_pc = "buffered"
    /\ data \in SegmentBuffers
    /\ encoded = << >>
    /\ decoded = [err |-> FALSE, out |-> << >>]
    /\ slip_fed = 0
    /\ slip_reads = 0
    /\ slip_buffer = << >>
    /\ slip_messages = << >>
    /\ OscIdle
    /\ DispIdle
    /\ ClientInit
    /\ budget = NoBudget

\* messages, buffer = process_slip_message(buffer) on the whole buffer
SlipSegment ==
    /\ slip_pc = "buffered"
    /\ LET segmented == process_slip_message(data)
       IN  /\ slip_messages' = segmented.messages
           /\ slip_buffer' = segmented.buffer
    /\ slip_fed' = Len(data)
    /\ slip_reads' = 1
    /\ slip_pc' = "segmented"
    /\ UNCHANGED << data, encoded, decoded, oscVars, dispVars, restVars >>

NextSegment == SlipSegment

SpecSegment == InitSegment /\ [][NextSegment]_vars

\* ------------------------------------------------------------------------
\* SpecOsc: the OSC message codec on bounded messages
\* ------------------------------------------------------------------------

\* "/a", "/example" and "a"
OscAddresses ==
    { << 47, 97 >>, << 47, 101, 120, 97, 109, 112, 108, 101 >>, << 97 >> }

\* 42, -1, True, False, "hi", "", "é", 3.14, 1.5 and None
OscArgs ==
    { IntArg(42), IntArg(-1), BoolArg(TRUE), BoolArg(FALSE),
      StrArg(<< 104, 105 >>), StrArg(<< >>), StrArg(<< 233 >>),
      FloatArg(<< 64, 72, 245, 195 >>, 1), FloatArg(<< 63, 192, 0, 0 >>, 0),
      NoneArg }

InitOsc ==
    /\ osc_pc = "start"
    /\ address \in OscAddresses
    /\ args \in SeqUpTo(OscArgs, MaxArgs)
    /\ message_byte = [err |-> "", out |-> << >>]
    /\ parsed = ParseFailed
    /\ osc_data = << >>
    /\ SlipIdle
    /\ DispIdle
    /\ ClientInit
    /\ budget = NoBudget

\* message_byte = create_osc_message(address, *args)
OscCreate ==
    /\ osc_pc = "start"
    /\ message_byte' = create_osc_message(address, args)
    /\ osc_pc' = "created"
    /\ UNCHANGED << address, args, parsed, osc_data, slipVars, dispVars, restVars >>

\* address, arguments = parse_osc_message(message_byte), when one was created
OscParse ==
    /\ osc_pc = "created"
    /\ message_byte.err = ""
    /\ parsed' = parse_osc_message(message_byte.out)
    /\ osc_pc' = "parsed"
    /\ UNCHANGED << address, args, message_byte, osc_data, slipVars, dispVars,
                    restVars >>

NextOsc == OscCreate \/ OscParse

SpecOsc == InitOsc /\ [][NextOsc]_vars

\* ------------------------------------------------------------------------
\* SpecParse: parse_osc_message on the buffers a peer can make it receive
\* ------------------------------------------------------------------------

\* 42, 1.5 and "hi"
ReceivedArgs ==
    { IntArg(42), FloatArg(<< 63, 192, 0, 0 >>, 0), StrArg(<< 104, 105 >>) }

\* the well-formed messages with an address starting with '/'
WholeMessages ==
    { create_osc_message(a, s).out :
        a \in { b \in OscAddresses : startswith(b, 47) },
        s \in SeqUpTo(ReceivedArgs, MaxArgs) }

\* each well-formed message whole and cut off after any number of bytes
ReceivedBuffers ==
    UNION { { PySlice(m, 0, n) : n \in 0 .. Len(m) } : m \in WholeMessages }

InitParse ==
    /\ osc_pc = "received"
    /\ osc_data \in ReceivedBuffers
    /\ address = << >>
    /\ args = << >>
    /\ message_byte = [err |-> "", out |-> << >>]
    /\ parsed = ParseFailed
    /\ SlipIdle
    /\ DispIdle
    /\ ClientInit
    /\ budget = NoBudget

\* address, arguments = parse_osc_message(osc_data)
OscParseReceived ==
    /\ osc_pc = "received"
    /\ parsed' = parse_osc_message(osc_data)
    /\ osc_pc' = "handled"
    /\ UNCHANGED << address, args, message_byte, osc_data, slipVars, dispVars,
                    restVars >>

NextParse == OscParseReceived

SpecParse == InitParse /\ [][NextParse]_vars

\* ------------------------------------------------------------------------
\* SpecDispatch: the Dispatcher
\* ------------------------------------------------------------------------

\* handlers 1 and 2 are coroutine functions, handler 3 is a plain function
DispHandlers == { 1, 2, 3 }

\* asyncio.iscoroutinefunction(handler)
iscoroutinefunction(handler) == handler \in { 1, 2 }

\* "/foo/*" and "/foo/bar"
DispPatterns ==
    { << 47, 102, 111, 111, 47, 42 >>, << 47, 102, 111, 111, 47, 98, 97, 114 >> }

\* "/foo/bar" and "/baz"
DispAddresses ==
    { << 47, 102, 111, 111, 47, 98, 97, 114 >>, << 47, 98, 97, 122 >> }

\* no argument, and the integer 1
DispArgLists == { << >>, << IntArg(1) >> }

\* fnmatch.fnmatch(name, pat) on a pattern of literal characters, '*' (42)
\* and '?' (63); os.path.normcase leaves both strings as they are
RECURSIVE fnmatch_from(_, _, _, _)
fnmatch_from(name, pat, i, j) ==
    IF j > Len(pat) THEN i > Len(name)
    ELSE IF pat[j] = 42
         THEN \/ fnmatch_from(name, pat, i, j + 1)
              \/ (i <= Len(name) /\ fnmatch_from(name, pat, i + 1, j))
         ELSE /\ i <= Len(name)
              /\ pat[j] = 63 \/ pat[j] = name[i]
              /\ fnmatch_from(name, pat, i + 1, j + 1)

fnmatch(name, pat) == fnmatch_from(name, pat, 1, 1)

\* the positions of the key address_ in the dict (none, or one)
KeysOf(handlers_, address_) ==
    { k \in 1 .. Len(handlers_) : handlers_[k].pattern = address_ }

\* Dispatcher.map: TypeError for a handler that is no coroutine function;
\* self.handlers[address] raises KeyError for a key the dict does not hold;
\* otherwise the handler is appended to the list of the key
map(handlers_, address_, handler) ==
    IF ~iscoroutinefunction(handler)
    THEN [raised |-> "TypeError", handlers |-> handlers_]
    ELSE IF KeysOf(handlers_, address_) = { }
         THEN [raised |-> "KeyError", handlers |-> handlers_]
         ELSE LET k == CHOOSE k \in KeysOf(handlers_, address_) : TRUE
              IN  [raised |-> "",
                   handlers |-> [handlers_ EXCEPT ![k].handlers = Append(@, handler)]]

\* Dispatcher.unmap: del self.handlers[address], or a print
unmap(handlers_, address_) ==
    SelectSeq(handlers_, LAMBDA entry : entry.pattern # address_)

\* Dispatcher.set_default_handler
set_default_handler(default_handler_, handler) ==
    IF ~iscoroutinefunction(handler)
    THEN [raised |-> "TypeError", default_handler |-> default_handler_]
    ELSE [raised |-> "", default_handler |-> handler]

\* a dispatch that calls the default handler with the address alone
Dispatcher_dispatch_bare(handlers_, default_handler_, address_, args_) ==
    IF default_handler_ # 0
    THEN << [handler |-> default_handler_, address |-> address_, arguments |-> << >>] >>
    ELSE << >>

\* Dispatcher.dispatch: the handler invocations it awaits, in order.  The
\* first pattern in insertion order that matches has all its handlers called
\* and dispatch returns; with no match the default handler, if set, is called.
Dispatcher_dispatch(handlers_, default_handler_, address_, args_) ==
    LET found == { k \in 1 .. Len(handlers_) : fnmatch(address_, handlers_[k].pattern) }
    IN  IF found # { }
        THEN LET k == CHOOSE k \in found : \A q \in found : k <= q
             IN  [i \in 1 .. Len(handlers_[k].handlers) |->
                     [handler |-> handlers_[k].handlers[i],
                      address |-> address_, arguments |-> args_]]
        ELSE IF default_handler_ # 0
             THEN << [handler |-> default_handler_,
                      address |-> address_, arguments |-> args_] >>
             ELSE << >>

InitDispatch ==
    /\ disp_pc = "setup"
    /\ handlers = << >>
    /\ default_handler = 0
    /\ calls = << >>
    /\ disp_address = << >>
    /\ disp_args = << >>
    /\ invoked = << >>
    /\ SlipIdle
    /\ OscIdle
    /\ ClientInit
    /\ budget = NoBudget

\* dispatcher.map(address, handler)
DispMap(address_, handler) ==
    /\ disp_pc = "setup"
    /\ Len(calls) < MaxCalls
    /\ LET res == map(handlers, address_, handler)
       IN  /\ handlers' = res.handlers
           /\ calls' = Append(calls, [op |-> "map", pattern |-> address_,
                                      handler |-> handler, raised |-> res.raised])
    /\ UNCHANGED << disp_pc, default_handler, disp_address, disp_args, invoked,
                    slipVars, oscVars, restVars >>

\* dispatcher.unmap(address)
DispUnmap(address_) ==
    /\ disp_pc = "setup"
    /\ Len(calls) < MaxCalls
    /\ handlers' = unmap(handlers, address_)
    /\ calls' = Append(calls, [op |-> "unmap", pattern |-> address_,
                               handler |-> 0, raised |-> ""])
    /\ UNCHANGED << disp_pc, default_handler, disp_address, disp_args, invoked,
                    slipVars, oscVars, restVars >>

\* dispatcher.set_default_handler(handler)
DispSetDefault(handler) ==
    /\ disp_pc = "setup"
    /\ Len(calls) < MaxCalls
    /\ LET res == set_default_handler(default_handler, handler)
       IN  /\ default_handler' = res.default_handler
           /\ calls' = Append(calls, [op |-> "set_default_handler", pattern |-> << >>,
                                      handler |-> handler, raised |-> res.raised])
    /\ UNCHANGED << disp_pc, handlers, disp_address, disp_args, invoked,
                    slipVars, oscVars, restVars >>

\* await dispatcher.dispatch(address, *args)
DispDispatch(address_, args_) ==
    /\ disp_pc = "setup"
    /\ disp_pc' = "dispatched"
    /\ disp_address' = address_
    /\ disp_args' = args_
    /\ invoked' = Dispatcher_dispatch(handlers, default_handler, address_, args_)
    /\ UNCHANGED << handlers, default_handler, calls, slipVars, oscVars, restVars >>

NextDispatch ==
    \/ \E p \in DispPatterns, h \in DispHandlers : DispMap(p, h)
    \/ \E p \in DispPatterns : DispUnmap(p)
    \/ \E h \in DispHandlers : DispSetDefault(h)
    \/ \E a \in DispAddresses, l \in DispArgLists : DispDispatch(a, l)

SpecDispatch == InitDispatch /\ [][NextDispatch]_vars

\* ------------------------------------------------------------------------
\* Spec: one AsyncTCPClient on an asyncio event loop
\* ------------------------------------------------------------------------
\* A step is what one task runs between two suspension points.  Calls come
\* from the front ends: add_message, run and shutdown.  The environment opens
\* or refuses connections, sends frames, delivers them in arbitrary pieces,
\* closes its side and resets connections.

\* "/a" with no argument; "a" with no argument (no leading '/'); "/a" with None
OutMessages ==
    { [address |-> << 47, 97 >>, args |-> << >>],
      [address |-> << 97 >>, args |-> << >>],
      [address |-> << 47, 97 >>, args |-> << NoneArg >>] }

\* the frame of the message "/a", and the frame of the one byte 'A'
PeerFrames ==
    { slip_encode(create_osc_message(<< 47, 97 >>, << >>).out), << 192, 65, 192 >> }

\* a stack in place of the queue: self.message_buffer.insert(0, packed_message)
add_message_front(buffer, packed_message) == << packed_message >> \o buffer

\* self.message_buffer.append(packed_message)
add_message(buffer, packed_message) == Append(buffer, packed_message)

\* a get_message that takes the newest message: self.message_buffer.pop()
get_message_last(buffer) ==
    IF buffer = << >>
    THEN [none |-> TRUE, message |-> [id |-> 0, address |-> << >>, args |-> << >>],
          buffer |-> buffer]
    ELSE [none |-> FALSE, message |-> buffer[Len(buffer)],
          buffer |-> SubSeq(buffer, 1, Len(buffer) - 1)]

\* get_message: (None, None) on an empty buffer, else self.message_buffer.pop(0)
get_message(buffer) ==
    IF buffer = << >>
    THEN [none |-> TRUE, message |-> [id |-> 0, address |-> << >>, args |-> << >>],
          buffer |-> buffer]
    ELSE [none |-> FALSE, message |-> Head(buffer), buffer |-> Tail(buffer)]

\* a connect that keeps to the first address whatever was configured since
open_connection_first(server_address_) ==
    [state |-> "open", inbound |-> << >>, eof |-> FALSE, address |-> 1]

\* asyncio.open_connection(*self.server_address) returns the streams of a
\* new connection to the address it was called with
open_connection(server_address_) ==
    [state |-> "open", inbound |-> << >>, eof |-> FALSE, address |-> server_address_]

\* self.server_address = new_server_address
alter_server_address(new_server_address) == new_server_address

\* client.alter_server_address(server_address): the front end configures the
\* next address
AlterServerAddress(new_server_address) ==
    /\ server_address <= budget.alters
    /\ n_shutdowns = 0
    /\ new_server_address = server_address + 1
    /\ server_address' = alter_server_address(new_server_address)
    /\ UNCHANGED << clientVars, taskVars, envVars, historyVars, slipVars, oscVars, dispVars,
                    shutVars, connect_pc, connect_to >>

\* a front end awaits client.connect() itself, before it calls run()
ConnectCall ==
    /\ budget.connects > 0
    /\ connect_pc = "idle"
    /\ n_shutdowns = 0
    /\ \A r \in Runs : run_pc[r] = "idle"
    /\ connect_pc' = "connect"
    /\ connect_to' = [connect_to EXCEPT ![0] = server_address]
    /\ UNCHANGED << clientVars, taskVars, envVars, historyVars, slipVars, oscVars, dispVars,
                    shutVars, server_address >>

\* open_connection returns: connect sets reader and writer and returns
ConnectDone ==
    /\ connect_pc = "connect"
    /\ conns' = Append(conns, open_connection(connect_to[0]))
    /\ reader' = Len(conns) + 1
    /\ writer' = Len(conns) + 1
    /\ connect_pc' = "done"
    /\ UNCHANGED << message_buffer, running, taskVars, sent_frames, n_faults, budget,
                    historyVars, slipVars, oscVars, dispVars, shutVars, server_address, connect_to >>

\* a connect that swallows the OSError, as run() does, and returns
ConnectSwallowed ==
    /\ connect_pc = "connect"
    /\ connect_pc' = "done"
    /\ UNCHANGED << clientVars, taskVars, envVars, historyVars, slipVars, oscVars, dispVars,
                    shutVars, server_address, connect_to >>

\* open_connection raises OSError: connect has no handler, its caller gets it
ConnectFailed ==
    /\ connect_pc = "connect"
    /\ connect_pc' = "raised"
    /\ UNCHANGED << clientVars, taskVars, envVars, historyVars, slipVars, oscVars, dispVars,
                    shutVars, server_address, connect_to >>

\* await client.add_message(message, *args)
AddMessage(m) ==
    /\ n_added < budget.msgs
    /\ budget.invalid \/ create_osc_message(m.address, m.args).err = ""
    /\ message_buffer' = add_message(message_buffer,
                             [id |-> n_added + 1, address |-> m.address, args |-> m.args])
    /\ n_added' = n_added + 1
    /\ n_before_run' = IF \A r \in Runs : run_pc[r] = "idle"
                       THEN n_before_run + 1 ELSE n_before_run
    /\ UNCHANGED << reader, writer, running, taskVars, envVars,
                    dequeued, wire, failed, dispatched, errors, slipVars, oscVars, dispVars,
                    frontVars >>

\* client.run() is called: it awaits self.connect().  The front ends call
\* run() before they call shutdown().
RunCall(r) ==
    /\ r <= budget.runs
    /\ n_shutdowns = 0
    /\ run_pc[r] = "idle"
    /\ \A q \in Runs : q < r => run_pc[q] # "idle"
    /\ connect_pc # "connect"
    /\ run_pc' = [run_pc EXCEPT ![r] = "connect"]
    /\ connect_to' = [connect_to EXCEPT ![r] = server_address]
    /\ UNCHANGED << clientVars, send_pc, listen_pc, listen_reader, rx_messages,
                    shutdown_pc, envVars, historyVars, slipVars, oscVars, dispVars,
                    shutVars, connect_pc, server_address >>

\* open_connection returns: connect sets reader and writer, run sets running,
\* creates both tasks and awaits gather
RunConnected(r) ==
    /\ run_pc[r] = "connect"
    /\ conns' = Append(conns, open_connection(connect_to[r]))
    /\ reader' = Len(conns) + 1
    /\ writer' = Len(conns) + 1
    /\ running' = TRUE
    /\ listen_pc' = [listen_pc EXCEPT ![r] = "start"]
    /\ send_pc' = [send_pc EXCEPT ![r] = "start"]
    /\ run_pc' = [run_pc EXCEPT ![r] = "gather"]
    /\ UNCHANGED << message_buffer, listen_reader, rx_messages, shutdown_pc,
                    sent_frames, n_faults, budget, historyVars, slipVars, oscVars, dispVars, frontVars >>

\* a run() that goes on after the exception of open_connection: running is
\* set and both tasks are created without a connection
RunConnectFailedStarts(r) ==
    /\ run_pc[r] = "connect"
    /\ running' = TRUE
    /\ listen_pc' = [listen_pc EXCEPT ![r] = "start"]
    /\ send_pc' = [send_pc EXCEPT ![r] = "start"]
    /\ run_pc' = [run_pc EXCEPT ![r] = "gather"]
    /\ errors' = errors \cup { [where |-> "run", by |-> r, outcome |-> "silent"] }
    /\ UNCHANGED << message_buffer, reader, writer, listen_reader, rx_messages,
                    shutdown_pc, envVars, n_added, n_before_run, dequeued, wire, failed,
                    dispatched, slipVars, oscVars, dispVars, frontVars >>

\* open_connection raises OSError: except (OSError, ConnectionRefusedError):
\* pass, and run returns
RunConnectFailed(r) ==
    /\ run_pc[r] = "connect"
    /\ run_pc' = [run_pc EXCEPT ![r] = "done"]
    /\ errors' = errors \cup { [where |-> "run", by |-> r, outcome |-> "silent"] }
    /\ UNCHANGED << clientVars, send_pc, listen_pc, listen_reader, rx_messages,
                    shutdown_pc, envVars, n_added, n_before_run, dequeued, wire, failed,
                    dispatched, slipVars, oscVars, dispVars, frontVars >>

\* gather hands run the exception of a task that raised
RunGatherRaised(r) ==
    /\ run_pc[r] = "gather"
    /\ send_pc[r] = "raised" \/ listen_pc[r] = "raised"
    /\ run_pc' = [run_pc EXCEPT ![r] = "raised"]
    /\ UNCHANGED << clientVars, send_pc, listen_pc, listen_reader, rx_messages,
                    shutdown_pc, envVars, historyVars, slipVars, oscVars, dispVars, frontVars >>

\* both tasks have returned, or one was cancelled (CancelledError: pass)
RunGatherDone(r) ==
    /\ run_pc[r] = "gather"
    /\ \/ send_pc[r] = "done" /\ listen_pc[r] = "done"
       \/ send_pc[r] = "cancelled"
       \/ listen_pc[r] = "cancelled"
    /\ run_pc' = [run_pc EXCEPT ![r] = "done"]
    /\ UNCHANGED << clientVars, send_pc, listen_pc, listen_reader, rx_messages,
                    shutdown_pc, envVars, historyVars, slipVars, oscVars, dispVars, frontVars >>

\* ---- send_messages ----

\* the task starts: if self.writer is None: raise ConnectionError
SendStart(r) ==
    /\ send_pc[r] = "start"
    /\ send_pc' = [send_pc EXCEPT ![r] = IF writer = 0 THEN "raised" ELSE "loop"]
    /\ UNCHANGED << clientVars, run_pc, listen_pc, listen_reader, rx_messages,
                    shutdown_pc, envVars, historyVars, slipVars, oscVars, dispVars, frontVars >>

\* while self.running is false: print("Send Handler Stopped")
SendStopped(r) ==
    /\ send_pc[r] = "loop"
    /\ ~running
    /\ send_pc' = [send_pc EXCEPT ![r] = "done"]
    /\ UNCHANGED << clientVars, run_pc, listen_pc, listen_reader, rx_messages,
                    shutdown_pc, envVars, historyVars, slipVars, oscVars, dispVars, frontVars >>

\* a send loop that returns when it finds the buffer empty
SendIdleExit(r) ==
    /\ send_pc[r] = "loop"
    /\ running
    /\ get_message(message_buffer).none
    /\ send_pc' = [send_pc EXCEPT ![r] = "done"]
    /\ UNCHANGED << clientVars, run_pc, listen_pc, listen_reader, rx_messages,
                    shutdown_pc, envVars, historyVars, slipVars, oscVars, dispVars, frontVars >>

\* get_message returned (None, None): await asyncio.sleep(0.05); continue
SendSleep(r) ==
    /\ send_pc[r] = "loop"
    /\ running
    /\ get_message(message_buffer).none
    /\ UNCHANGED vars

\* the send loop of src/pythonosctcp.py, lines 345-352: an exception of write
\* or drain is printed and raised again, which ends the task
send_one_reraise(message, outcome) ==
    LET message_byte_ == create_osc_message(message.address, message.args)
    IN  IF message_byte_.err # ""
        THEN [pc |-> "raised", written |-> FALSE, why |-> message_byte_.err, frame |-> << >>]
        ELSE IF outcome = "ok"
             THEN [pc |-> "loop", written |-> TRUE, why |-> "",
                   frame |-> slip_encode(message_byte_.out)]
             ELSE [pc |-> "raised", written |-> FALSE, why |-> outcome, frame |-> << >>]

\* what one pass of the loop does with the message it dequeued: the state of
\* the task afterwards, and what becomes of the message.  create_osc_message
\* is called before the try: its exception ends the task.  An exception of
\* write or drain is printed and the loop continues.
send_one(message, outcome) ==
    LET message_byte_ == create_osc_message(message.address, message.args)
    IN  IF message_byte_.err # ""
        THEN [pc |-> "raised", written |-> FALSE, why |-> message_byte_.err, frame |-> << >>]
        ELSE IF outcome = "ok"
             THEN [pc |-> "loop", written |-> TRUE, why |-> "",
                   frame |-> slip_encode(message_byte_.out)]
             ELSE [pc |-> "loop", written |-> FALSE, why |-> outcome, frame |-> << >>]

\* one pass of the loop with a message in the buffer.  outcome is what write
\* and drain do: "ok", "error" (an exception that leaves the connection
\* usable) or "lost" (the connection is gone: ConnectionResetError).
SendPass(r, outcome) ==
    /\ send_pc[r] = "loop"
    /\ running
    /\ ~get_message(message_buffer).none
    /\ LET got == get_message(message_buffer)
           res == send_one(got.message, outcome)
       IN  /\ message_buffer' = got.buffer
           /\ dequeued' = Append(dequeued, [id |-> got.message.id, by |-> r, added |-> n_added])
           /\ send_pc' = [send_pc EXCEPT ![r] = res.pc]
           /\ wire' = IF res.written
                      THEN Append(wire, [conn |-> writer, id |-> got.message.id,
                                         frame |-> res.frame])
                      ELSE wire
           /\ failed' = IF res.written THEN failed
                        ELSE Append(failed, [id |-> got.message.id, by |-> r, why |-> res.why,
                                             address |-> got.message.address])
    /\ errors' = LET res == send_one(get_message(message_buffer).message, outcome)
                 IN  IF res.written THEN errors
                     ELSE errors \cup { [where |-> "send_messages", by |-> r,
                                          outcome |-> IF res.pc = "raised" THEN "raised"
                                                      ELSE "printed"] }
    /\ n_faults' = IF send_one(get_message(message_buffer).message, outcome).why = "error"
                   THEN n_faults + 1 ELSE n_faults
    /\ UNCHANGED << reader, writer, running, run_pc, listen_pc, listen_reader,
                    rx_messages, shutdown_pc, conns, sent_frames, budget, n_added,
                    n_before_run, dispatched, slipVars, oscVars, dispVars, frontVars >>

\* write and drain succeed on an open connection
SendWrite(r) ==
    /\ send_pc[r] = "loop"
    /\ conns[writer].state = "open"
    /\ SendPass(r, "ok")

\* write or drain raise an exception, the connection stays open
SendWriteError(r) ==
    /\ send_pc[r] = "loop"
    /\ n_faults < budget.faults
    /\ conns[writer].state = "open"
    /\ SendPass(r, "error")

\* the connection is lost or closed: drain raises ConnectionResetError
SendWriteLost(r) ==
    /\ send_pc[r] = "loop"
    /\ conns[writer].state # "open"
    /\ SendPass(r, "lost")

\* ---- listen ----

\* dispatcher.dispatch(address, arguments): no pattern is mapped, the default
\* handler is awaited
dispatch(history, address_, arguments) ==
    Append(history, [address |-> address_, arguments |-> arguments])

\* the task starts: if self.reader is None: raise ConnectionError
ListenStart(r) ==
    /\ listen_pc[r] = "start"
    /\ listen_pc' = [listen_pc EXCEPT ![r] = IF reader = 0 THEN "raised" ELSE "loop"]
    /\ UNCHANGED << clientVars, run_pc, send_pc, listen_reader, rx_messages,
                    shutdown_pc, envVars, historyVars, slipVars, oscVars, dispVars, frontVars >>

\* while self.running is false: the task returns
ListenStopped(r) ==
    /\ listen_pc[r] = "loop"
    /\ ~running
    /\ listen_pc' = [listen_pc EXCEPT ![r] = "done"]
    /\ UNCHANGED << clientVars, run_pc, send_pc, listen_reader, rx_messages,
                    shutdown_pc, envVars, historyVars, slipVars, oscVars, dispVars, frontVars >>

\* the most bytes read(1024) takes from what has arrived
ReadMost(inbound) == IF Len(inbound) < MaxRead THEN Len(inbound) ELSE MaxRead

\* listen(): data has been read on connection c into the buffer the caller
\* passed; the frames found are kept for the for loop, and the rest of the
\* buffer stays in the local name that listen() drops when it returns.
listen_read(r, c, buffer, k) ==
    LET data_ == SubSeq(conns[c].inbound, 1, k)
        found == process_slip_message(buffer \o data_)
    IN  /\ conns' = [conns EXCEPT ![c].inbound = SubSeq(conns[c].inbound, k + 1, Len(conns[c].inbound))]
        /\ rx_messages' = [rx_messages EXCEPT ![r] = found.messages]
        /\ listen_pc' = [listen_pc EXCEPT ![r] = IF found.messages = << >> THEN "loop" ELSE "frames"]
        /\ listen_reader' = [listen_reader EXCEPT ![r] = IF found.messages = << >> THEN 0 ELSE c]

\* buffer = bytearray(); listen(self.reader, buffer, ...): reader.read(1024)
\* returns the k bytes that have arrived
ListenRead(r) ==
    /\ listen_pc[r] = "loop"
    /\ running
    /\ conns[reader].state # "lost"
    /\ \E k \in 1 .. ReadMost(conns[reader].inbound) : listen_read(r, reader, << >>, k)
    /\ UNCHANGED << clientVars, run_pc, send_pc, shutdown_pc, sent_frames, n_faults,
                    budget, historyVars, slipVars, oscVars, dispVars, frontVars >>

\* reader.read(1024) finds nothing yet and waits; a second waiter on the same
\* reader gets RuntimeError, which listen re-raises
ListenWait(r) ==
    /\ listen_pc[r] = "loop"
    /\ running
    /\ conns[reader].state = "open"
    /\ ~conns[reader].eof
    /\ IF \E q \in Runs : listen_pc[q] = "wait" /\ listen_reader[q] = reader
       THEN /\ listen_pc' = [listen_pc EXCEPT ![r] = "raised"]
            /\ errors' = errors \cup { [where |-> "read", by |-> r, outcome |-> "raised"] }
            /\ UNCHANGED listen_reader
       ELSE /\ listen_pc' = [listen_pc EXCEPT ![r] = "wait"]
            /\ listen_reader' = [listen_reader EXCEPT ![r] = reader]
            /\ UNCHANGED errors
    /\ UNCHANGED << clientVars, run_pc, send_pc, rx_messages, shutdown_pc,
                    envVars, n_added, n_before_run, dequeued, wire, failed, dispatched,
                    slipVars, oscVars, dispVars, frontVars >>

\* the waiting read returns the k bytes that have arrived
ListenWake(r) ==
    /\ listen_pc[r] = "wait"
    /\ conns[listen_reader[r]].state # "lost"
    /\ \E k \in 1 .. ReadMost(conns[listen_reader[r]].inbound) :
          listen_read(r, listen_reader[r], << >>, k)
    /\ UNCHANGED << clientVars, run_pc, send_pc, shutdown_pc, sent_frames, n_faults,
                    budget, historyVars, slipVars, oscVars, dispVars, frontVars >>

\* the connection a listen task reads from: the one it waits on, else self.reader
ReaderOf(r) == IF listen_pc[r] = "wait" THEN listen_reader[r] ELSE reader

\* a receive loop that stops the client when the peer closes: running = False
ListenEofStops(r) ==
    /\ listen_pc[r] = "wait" \/ (listen_pc[r] = "loop" /\ running)
    /\ conns[ReaderOf(r)].state = "closed"
       \/ (conns[ReaderOf(r)].state = "open" /\ conns[ReaderOf(r)].eof)
    /\ conns[ReaderOf(r)].inbound = << >>
    /\ listen_pc' = [listen_pc EXCEPT ![r] = "done"]
    /\ listen_reader' = [listen_reader EXCEPT ![r] = 0]
    /\ running' = FALSE
    /\ UNCHANGED << message_buffer, reader, writer, run_pc, send_pc, rx_messages,
                    shutdown_pc, envVars, historyVars, slipVars, oscVars, dispVars, frontVars >>

\* read returns b'' (the peer or shutdown closed the connection): listen
\* returns False and the loop breaks
ListenEof(r) ==
    /\ listen_pc[r] = "wait" \/ (listen_pc[r] = "loop" /\ running)
    /\ conns[ReaderOf(r)].state = "closed"
       \/ (conns[ReaderOf(r)].state = "open" /\ conns[ReaderOf(r)].eof)
    /\ conns[ReaderOf(r)].inbound = << >>
    /\ listen_pc' = [listen_pc EXCEPT ![r] = "done"]
    /\ listen_reader' = [listen_reader EXCEPT ![r] = 0]
    /\ UNCHANGED << clientVars, run_pc, send_pc, rx_messages, shutdown_pc,
                    envVars, historyVars, slipVars, oscVars, dispVars, frontVars >>

\* read raises ConnectionResetError: raise Exception(error) from e
ListenReset(r) ==
    /\ listen_pc[r] = "wait" \/ (listen_pc[r] = "loop" /\ running)
    /\ conns[ReaderOf(r)].state = "lost"
    /\ listen_pc' = [listen_pc EXCEPT ![r] = "raised"]
    /\ listen_reader' = [listen_reader EXCEPT ![r] = 0]
    /\ errors' = errors \cup { [where |-> "read", by |-> r, outcome |-> "raised"] }
    /\ UNCHANGED << clientVars, run_pc, send_pc, rx_messages, shutdown_pc,
                    envVars, n_added, n_before_run, dequeued, wire, failed, dispatched,
                    slipVars, oscVars, dispVars, frontVars >>

\* the for loop without the test of line 274: a frame that failed parsing is
\* dispatched with the address None, and the handler raises on it
ListenFrameUntested(r) ==
    /\ listen_pc[r] = "frames"
    /\ LET decoded_message == slip_decode(Head(rx_messages[r]))
           msg == parse_osc_message(decoded_message.out)
       IN  /\ dispatched' = dispatch(dispatched, msg.address, msg.arguments)
           /\ errors' = IF msg.none
                        THEN errors \cup { [where |-> "handler", by |-> r, outcome |-> "raised"] }
                        ELSE errors
           /\ rx_messages' = [rx_messages EXCEPT ![r] =
                                 IF msg.none THEN << >> ELSE Tail(rx_messages[r])]
           /\ listen_pc' = [listen_pc EXCEPT ![r] =
                               IF msg.none THEN "raised"
                               ELSE IF Tail(rx_messages[r]) = << >> THEN "loop" ELSE "frames"]
           /\ listen_reader' = [listen_reader EXCEPT ![r] =
                                   IF msg.none \/ Tail(rx_messages[r]) = << >>
                                   THEN 0 ELSE listen_reader[r]]
    /\ UNCHANGED << clientVars, run_pc, send_pc, shutdown_pc,
                    envVars, n_added, n_before_run, dequeued, wire, failed,
                    slipVars, oscVars, dispVars, frontVars >>

\* one pass of the for loop of listen(): decode, parse and, unless the
\* address is None, await dispatch, whose handler returns.  parse_osc_message
\* prints the exception it caught when it returns (None, None).
ListenFrame(r) ==
    /\ listen_pc[r] = "frames"
    /\ LET decoded_message == slip_decode(Head(rx_messages[r]))
           msg == parse_osc_message(decoded_message.out)
           rest == Tail(rx_messages[r])
       IN  IF decoded_message.err
           THEN /\ listen_pc' = [listen_pc EXCEPT ![r] = "raised"]
                /\ rx_messages' = [rx_messages EXCEPT ![r] = << >>]
                /\ listen_reader' = [listen_reader EXCEPT ![r] = 0]
                /\ errors' = errors \cup { [where |-> "slip_decode", by |-> r,
                                              outcome |-> "raised"] }
                /\ UNCHANGED dispatched
           ELSE /\ dispatched' = IF msg.none THEN dispatched
                                 ELSE dispatch(dispatched, msg.address, msg.arguments)
                /\ errors' = IF msg.none
                             THEN errors \cup { [where |-> "parse_osc_message", by |-> r,
                                                  outcome |-> "printed"] }
                             ELSE errors
                /\ rx_messages' = [rx_messages EXCEPT ![r] = rest]
                /\ listen_pc' = [listen_pc EXCEPT ![r] = IF rest = << >> THEN "loop" ELSE "frames"]
                /\ listen_reader' = [listen_reader EXCEPT ![r] =
                                         IF rest = << >> THEN 0 ELSE listen_reader[r]]
    /\ UNCHANGED << clientVars, run_pc, send_pc, shutdown_pc,
                    envVars, n_added, n_before_run, dequeued, wire, failed,
                    slipVars, oscVars, dispVars, frontVars >>

\* a receive loop that contains the exception of a handler: it is printed and
\* the for loop goes on with the next frame
ListenHandlerContained(r) ==
    /\ listen_pc[r] = "frames"
    /\ n_faults < budget.faults
    /\ LET decoded_message == slip_decode(Head(rx_messages[r]))
           msg == parse_osc_message(decoded_message.out)
           rest == Tail(rx_messages[r])
       IN  /\ ~decoded_message.err
           /\ ~msg.none
           /\ dispatched' = dispatch(dispatched, msg.address, msg.arguments)
           /\ rx_messages' = [rx_messages EXCEPT ![r] = rest]
           /\ listen_pc' = [listen_pc EXCEPT ![r] = IF rest = << >> THEN "loop" ELSE "frames"]
           /\ listen_reader' = [listen_reader EXCEPT ![r] =
                                   IF rest = << >> THEN 0 ELSE listen_reader[r]]
    /\ errors' = errors \cup { [where |-> "handler", by |-> r, outcome |-> "raised"] }
    /\ n_faults' = n_faults + 1
    /\ UNCHANGED << clientVars, run_pc, send_pc, shutdown_pc, conns, sent_frames, budget,
                    n_added, n_before_run, dequeued, wire, failed,
                    slipVars, oscVars, dispVars, frontVars >>

\* a pass of the for loop whose handler raises: listen() lets the exception
\* through and AsyncTCPClient.listen raises Exception(error) from it, which
\* ends the task with the frames still to handle
ListenHandlerRaised(r) ==
    /\ listen_pc[r] = "frames"
    /\ n_faults < budget.faults
    /\ LET decoded_message == slip_decode(Head(rx_messages[r]))
           msg == parse_osc_message(decoded_message.out)
       IN  /\ ~decoded_message.err
           /\ ~msg.none
           /\ dispatched' = dispatch(dispatched, msg.address, msg.arguments)
    /\ errors' = errors \cup { [where |-> "handler", by |-> r, outcome |-> "raised"] }
    /\ n_faults' = n_faults + 1
    /\ listen_pc' = [listen_pc EXCEPT ![r] = "raised"]
    /\ rx_messages' = [rx_messages EXCEPT ![r] = << >>]
    /\ listen_reader' = [listen_reader EXCEPT ![r] = 0]
    /\ UNCHANGED << clientVars, run_pc, send_pc, shutdown_pc, conns, sent_frames, budget,
                    n_added, n_before_run, dequeued, wire, failed,
                    slipVars, oscVars, dispVars, frontVars >>

\* ---- shutdown ----

\* task.cancel() on every other task of the event loop: CancelledError ends a
\* send_messages task, a task that has not started and the front-end tasks;
\* listen and run catch it and return
cancel_send(pc) == IF pc \in { "start", "loop" } THEN "cancelled" ELSE pc

cancel_listen(pc) ==
    IF pc = "start" THEN "cancelled"
    ELSE IF pc \in { "loop", "wait", "frames" } THEN "done" ELSE pc

cancel_run(pc) == IF pc \in { "connect", "gather" } THEN "done" ELSE pc

CancelAllTasks ==
    /\ send_pc' = [r \in Runs |-> cancel_send(send_pc[r])]
    /\ listen_pc' = [r \in Runs |-> cancel_listen(listen_pc[r])]
    /\ run_pc' = [r \in Runs |-> cancel_run(run_pc[r])]
    /\ listen_reader' = [r \in Runs |-> 0]
    /\ rx_messages' = [r \in Runs |-> << >>]
    /\ main_pc' = "cancelled"
    /\ connect_pc' = IF connect_pc = "connect" THEN "cancelled" ELSE connect_pc

\* shutdown() is called: running = False, then close().  With no writer
\* close() does nothing and the tasks are cancelled at once.  wait_closed()
\* raises the exception of a connection that was lost; otherwise it suspends
\* until the transport is closed.
ShutdownCall ==
    /\ shutdown_pc \in { "idle", "done", "raised" }
    /\ n_shutdowns < budget.shutdowns
    /\ n_shutdowns' = n_shutdowns + 1
    /\ n_at_shutdown' = n_added
    /\ running' = FALSE
    /\ IF writer = 0
       THEN /\ CancelAllTasks
            /\ shutdown_pc' = "gather"
            /\ UNCHANGED conns
       ELSE IF conns[writer].state = "lost"
            THEN /\ shutdown_pc' = "raised"
                 /\ UNCHANGED << conns, run_pc, send_pc, listen_pc, listen_reader,
                                 rx_messages, main_pc, connect_pc >>
            ELSE /\ conns' = [conns EXCEPT ![writer].state = "closed"]
                 /\ shutdown_pc' = "wait_closed"
                 /\ UNCHANGED << run_pc, send_pc, listen_pc, listen_reader,
                                 rx_messages, main_pc, connect_pc >>
    /\ UNCHANGED << message_buffer, reader, writer, sent_frames, n_faults, budget,
                    historyVars, slipVars, oscVars, dispVars, server_address, connect_to >>

\* wait_closed() returns: every other task is cancelled, gather awaits them
ShutdownCancel ==
    /\ shutdown_pc = "wait_closed"
    /\ CancelAllTasks
    /\ shutdown_pc' = "gather"
    /\ UNCHANGED << clientVars, envVars, historyVars, slipVars, oscVars, dispVars,
                    n_shutdowns, n_at_shutdown, server_address, connect_to >>

\* gather(*tasks, return_exceptions=True) returns
ShutdownDone ==
    /\ shutdown_pc = "gather"
    /\ shutdown_pc' = "done"
    /\ UNCHANGED << clientVars, run_pc, send_pc, listen_pc, listen_reader,
                    rx_messages, envVars, historyVars, slipVars, oscVars, dispVars, frontVars >>

\* ---- the peers and the network ----

\* the peer of connection c sends one frame
PeerSend(c, frame) ==
    /\ Len(sent_frames) < budget.frames
    /\ conns[c].state = "open"
    /\ ~conns[c].eof
    /\ conns' = [conns EXCEPT ![c].inbound = conns[c].inbound \o frame]
    /\ sent_frames' = Append(sent_frames, frame)
    /\ UNCHANGED << clientVars, taskVars, n_faults, budget, historyVars, slipVars,
                    oscVars, dispVars, frontVars >>

\* the peer of connection c closes its side: reads return b'' after the data
PeerClose(c) ==
    /\ n_faults < budget.faults
    /\ conns[c].state = "open"
    /\ ~conns[c].eof
    /\ conns' = [conns EXCEPT ![c].eof = TRUE]
    /\ n_faults' = n_faults + 1
    /\ UNCHANGED << clientVars, taskVars, sent_frames, budget, historyVars, slipVars,
                    oscVars, dispVars, frontVars >>

\* connection c is reset: reads and drains raise ConnectionResetError
ConnLost(c) ==
    /\ n_faults < budget.faults
    /\ conns[c].state = "open"
    /\ conns' = [conns EXCEPT ![c].state = "lost"]
    /\ n_faults' = n_faults + 1
    /\ UNCHANGED << clientVars, taskVars, sent_frames, budget, historyVars, slipVars,
                    oscVars, dispVars, frontVars >>

Init ==
    /\ ClientInit
    /\ budget \in Scenarios
    /\ SlipIdle
    /\ OscIdle
    /\ DispIdle

Next ==
    \/ \E m \in OutMessages : AddMessage(m)
    \/ \E r \in Runs :
          \/ RunCall(r)
          \/ RunConnected(r)
          \/ RunConnectFailed(r)
          \/ RunGatherRaised(r)
          \/ RunGatherDone(r)
          \/ SendStart(r)
          \/ SendStopped(r)
          \/ SendSleep(r)
          \/ SendWrite(r)
          \/ SendWriteError(r)
          \/ SendWriteLost(r)
          \/ ListenStart(r)
          \/ ListenStopped(r)
          \/ ListenWait(r)
          \/ ListenEof(r)
          \/ ListenReset(r)
          \/ ListenFrame(r)
          \/ ListenHandlerRaised(r)
          \/ ListenRead(r)
          \/ ListenWake(r)
    \/ \E a \in 1 .. MaxAddresses : AlterServerAddress(a)
    \/ ConnectCall
    \/ ConnectDone
    \/ ConnectFailed
    \/ ShutdownCall
    \/ ShutdownCancel
    \/ ShutdownDone
    \/ \E c \in 1 .. Len(conns) :
          \/ \E frame \in PeerFrames : PeerSend(c, frame)
          \/ PeerClose(c)
          \/ ConnLost(c)

Spec == Init /\ [][Next]_vars

\* ------------------------------------------------------------------------
\* SpecLive: one run() of the client under fair scheduling
\* ------------------------------------------------------------------------
\* The front end queues valid messages at any time and may call shutdown();
\* the peer may close its side and the connection may be lost.  The event
\* loop runs every task that is ready: a send task that can start, or that
\* finds a message in the buffer after its sleep, does take its step.

LiveBudget ==
    [runs |-> 1, msgs |-> MaxMsgs - 1, frames |-> 0, faults |-> MaxFaults, connects |-> 0,
     alters |-> 0, shutdowns |-> 1, invalid |-> FALSE]

InitLive ==
    /\ ClientInit
    /\ budget = LiveBudget
    /\ SlipIdle
    /\ OscIdle
    /\ DispIdle

\* one pass of the send loop while the client is running
SendLoop(r) ==
    \/ SendSleep(r)
    \/ SendWrite(r)
    \/ SendWriteLost(r)

NextLive ==
    \/ \E m \in OutMessages : AddMessage(m)
    \/ \E r \in Runs :
          \/ RunCall(r)
          \/ RunConnected(r)
          \/ RunConnectFailed(r)
          \/ RunGatherRaised(r)
          \/ RunGatherDone(r)
          \/ SendStart(r)
          \/ SendStopped(r)
          \/ SendLoop(r)
          \/ ListenStart(r)
          \/ ListenStopped(r)
          \/ ListenWait(r)
          \/ ListenEof(r)
          \/ ListenReset(r)
    \/ ShutdownCall
    \/ ShutdownCancel
    \/ ShutdownDone
    \/ \E c \in 1 .. Len(conns) :
          \/ PeerClose(c)
          \/ ConnLost(c)

Fairness ==
    \A r \in Runs :
        /\ WF_vars(SendStart(r))
        /\ WF_vars(SendWrite(r))

SpecLive == InitLive /\ [][NextLive]_vars /\ Fairness

\* ------------------------------------------------------------------------
\* SpecTwoRuns: two run() calls on one client, the peers sending frames
\* ------------------------------------------------------------------------
\* run() is called again while an earlier call is connected or connecting
\* (gui_messager.start_client on retry); no message is queued and shutdown()
\* is not called.

TwoRunsBudget ==
    [runs |-> 2, msgs |-> 0, frames |-> 2, faults |-> 0, connects |-> 0,
     alters |-> 0, shutdowns |-> 0, invalid |-> FALSE]

InitTwoRuns ==
    /\ ClientInit
    /\ budget = TwoRunsBudget
    /\ SlipIdle
    /\ OscIdle
    /\ DispIdle

NextTwoRuns ==
    \/ \E r \in Runs :
          \/ RunCall(r)
          \/ RunConnected(r)
          \/ RunConnectFailed(r)
          \/ RunGatherRaised(r)
          \/ SendStart(r)
          \/ SendSleep(r)
          \/ ListenStart(r)
          \/ ListenWait(r)
          \/ ListenFrame(r)
          \/ ListenRead(r)
          \/ ListenWake(r)
    \/ \E c \in 1 .. Len(conns) :
          \E frame \in PeerFrames : PeerSend(c, frame)

SpecTwoRuns == InitTwoRuns /\ [][NextTwoRuns]_vars

\* ------------------------------------------------------------------------
\* Claims
\* ------------------------------------------------------------------------

\* C1: for every byte string b, also one holding 0xC0 or 0xDB,
\* slip_decode(slip_encode(b)) returns b.
C1_RoundTrip ==
    slip_pc = "decoded" => decoded = [err |-> FALSE, out |-> data]

\* what is dispatched for the frames the peer has sent when each frame is
\* handled whole: segmented, decoded, parsed and, unless parsing failed,
\* dispatched
C2_Whole ==
    LET whole[n \in 0 .. Len(sent_frames)] ==
            IF n = 0 THEN << >>
            ELSE LET frame == process_slip_message(sent_frames[n]).messages[1]
                     msg == parse_osc_message(slip_decode(frame).out)
                 IN  IF msg.none THEN whole[n - 1]
                     ELSE dispatch(whole[n - 1], msg.address, msg.arguments)
    IN  whole[Len(sent_frames)]

\* C2: in the receive loop of the client a frame whose bytes arrive over two
\* or more reads is kept across the reads: once the listen task has read every
\* byte the peer sent and is back at its read, each frame sent has been
\* dispatched exactly once, in order, whatever the pieces were.
C2_SplitFrameRetained ==
    (/\ Len(conns) = 1
     /\ conns[1].state = "open"
     /\ conns[1].inbound = << >>
     /\ running
     /\ listen_pc[1] \in { "loop", "wait" })
    => dispatched = C2_Whole

\* the ids of the messages written to the socket, in the order of the writes
C3_Written == [i \in 1 .. Len(wire) |-> wire[i].id]

C4_SerializationLocal ==
    \A i \in 1 .. Len(failed) :
        failed[i].why = "ValueError" => send_pc[failed[i].by] # "raised"

\* C5: a write or drain that fails because the connection is lost ends the
\* send loop: the loop that met the failure is no longer running its while
\* loop, where it would take and drop further messages.
C5_LostIsTerminal ==
    \A i \in 1 .. Len(failed) :
        failed[i].why = "lost" => send_pc[failed[i].by] # "loop"

\* a step in which a write fails with the connection still usable
C6_WriteFails ==
    /\ Len(failed') = Len(failed) + 1
    /\ failed'[Len(failed')].why = "error"

C7_RoundTrip ==
    (/\ osc_pc = "parsed"
     /\ \A i \in 1 .. Len(args) : args[i].type \in { "int", "str", "bool" })
    => parsed = [address |-> address, arguments |-> args, none |-> FALSE]

\* the address block of the created message
C8_AddressBlock == pad4(utf8_encode(address) \o << 0 >>)

\* C8: create_osc_message tags a boolean argument 'T' when it is true and 'F'
\* when it is false, and emits no payload byte for it: a message whose
\* arguments are all booleans ends with its type tag block.
C8_BoolTag ==
    (/\ osc_pc = "created"
     /\ message_byte.err = ""
     /\ \A i \in 1 .. Len(args) : args[i].type = "bool")
    => /\ \A i \in 1 .. Len(args) :
            message_byte.out[Len(C8_AddressBlock) + 1 + i]
                = (IF args[i] = BoolArg(TRUE) THEN 84 ELSE 70)
       /\ Len(message_byte.out)
            = Len(C8_AddressBlock) + Len(pad4(Nuls(Len(args) + 2)))

\* C9: on one client at most one send loop at a time is taking messages from
\* the buffer, whatever calls of run(), add_message() and shutdown() are made.
\* (The listen actions leave message_buffer as it is; this is the half of the
\* claim about the send loops.)
C9_SingleConsumer ==
    Cardinality({ r \in Runs : send_pc[r] = "loop" }) <= 1

\* C10: however add_message and get_message interleave, the messages
\* get_message has returned are the first ones queued, in order and each once,
\* and the buffer holds exactly the rest, in order: none is lost or doubled.
C10_QueueAtomic ==
    /\ \A i \in 1 .. Len(dequeued) : dequeued[i].id = i
    /\ Len(message_buffer) = n_added - Len(dequeued)
    /\ \A j \in 1 .. Len(message_buffer) : message_buffer[j].id = Len(dequeued) + j

\* get_message returned the first message when it was the only one queued;
\* later ones were added and one of them has been returned since, one waits
C10_Interleaved ==
    /\ Len(dequeued) >= 2
    /\ dequeued[1].added = 1
    /\ message_buffer # << >>

\* C11: when shutdown() has returned, every send loop and every receive loop
\* of the client has ended and the client's socket is closed, so that nothing
\* is written afterwards.
C11_ShutdownStops ==
    shutdown_pc = "done"
    => /\ \A r \in Runs :
            /\ send_pc[r] \notin { "start", "loop" }
            /\ listen_pc[r] \notin { "start", "loop", "wait", "frames" }
       /\ writer # 0 => conns[writer].state = "closed"
       /\ ~running

\* C12: shutdown() cancels the client's own send and receive loops only: the
\* front-end task that started run() and awaits it is not cancelled.
C12_OnlyOwnLoops ==
    main_pc # "cancelled"

\* C13: shutdown() called a second time, or called on a client that never
\* connected, raises no error and leaves the client with running = False.
C13_Idempotent ==
    (/\ n_shutdowns >= 2 \/ (n_shutdowns >= 1 /\ conns = << >>)
     /\ shutdown_pc \in { "done", "raised" })
    => /\ shutdown_pc = "done"
       /\ ~running

\* C14: the messages that were in the buffer when shutdown() was called are
\* no longer in it once shutdown() has returned.
C14_QueueDiscarded ==
    shutdown_pc = "done"
    => \A j \in 1 .. Len(message_buffer) : message_buffer[j].id > n_at_shutdown

\* run r is the retry that connected: it opened the only connection there is,
\* after an earlier run() ended without one and the address was altered
C15_Retried(r) ==
    /\ connect_pc = "idle"
    /\ send_pc[r] # "none"
    /\ \A q \in Runs \ { r } : send_pc[q] = "none"
    /\ \E q \in Runs : q < r /\ run_pc[q] = "done" /\ connect_to[q] # connect_to[r]
    /\ server_address = connect_to[r]

\* C15: after a connection attempt that failed, alter_server_address(new) and
\* a retry open the connection to the new address; reader and writer are that
\* connection and every message written goes over it.
C15_RetryNewAddress ==
    \A r \in Runs :
        C15_Retried(r)
        => /\ Len(conns) = 1
           /\ conns[1].address = server_address
           /\ reader = 1 /\ writer = 1
           /\ \A i \in 1 .. Len(wire) : wire[i].conn = 1

\* the first run() failed to connect, the retry connected to address 2 and a
\* message queued after the retry was called has been written to it
C15_Delivered ==
    /\ C15_Retried(2)
    /\ n_before_run = 0
    /\ conns[1].address = 2
    /\ wire # << >>

\* C16: when opening the connection fails, connect() raises to its caller
\* (it returns only with reader and writer set), and a client on which no
\* connection was ever opened has no reader, no writer, running = False and
\* no loop started.
C16_ConnectFails ==
    /\ connect_pc = "done" => (reader # 0 /\ writer # 0)
    /\ conns = << >>
       => /\ reader = 0 /\ writer = 0
          /\ ~running
          /\ \A r \in Runs : send_pc[r] = "none" /\ listen_pc[r] = "none"

\* connect() called by the front end failed, and so did the connect of run()
C16_Failed ==
    /\ connect_pc = "raised"
    /\ run_pc[1] = "done"
    /\ conns = << >>

\* what dispatch hands a handler: the address and arguments it was given
C17_Call(handler) ==
    [handler |-> handler, address |-> disp_address, arguments |-> disp_args]

\* the calls of map whose pattern matches the dispatched address
C17_Matching ==
    { i \in 1 .. Len(calls) : calls[i].op = "map" /\ fnmatch(disp_address, calls[i].pattern) }

\* C17: when coroutine handlers were registered with map for distinct
\* patterns and the dispatched address matches some of them, dispatch
\* invokes the handler of the pattern registered first among those, once, and
\* no other handler (not a later pattern's, not the default handler).
C17_FirstMatch ==
    (/\ disp_pc = "dispatched"
     /\ \A i \in 1 .. Len(calls) :
            calls[i].op = "map" /\ iscoroutinefunction(calls[i].handler)
     /\ \A i, j \in 1 .. Len(calls) : i # j => calls[i].pattern # calls[j].pattern
     /\ C17_Matching # { })
    => LET first == CHOOSE i \in C17_Matching : \A j \in C17_Matching : i <= j
       IN  invoked = << C17_Call(calls[first].handler) >>

\* C18: when no pattern of the table matches the address, dispatch invokes
\* the default handler once with the address and the arguments it was
\* given, and invokes nothing when no default handler is set.
C18_DefaultFallback ==
    (/\ disp_pc = "dispatched"
     /\ \A k \in 1 .. Len(handlers) : ~fnmatch(disp_address, handlers[k].pattern))
    => invoked = (IF default_handler # 0
                  THEN << [handler |-> default_handler, address |-> disp_address,
                           arguments |-> disp_args] >>
                  ELSE << >>)

\* "/baz" with the argument 1 went to the default handler 2
C18_DefaultInvoked ==
    /\ disp_pc = "dispatched"
    /\ default_handler = 2
    /\ disp_address = << 47, 98, 97, 122 >>
    /\ invoked = << [handler |-> 2, address |-> << 47, 98, 97, 122 >>,
                     arguments |-> << IntArg(1) >>] >>

\* C19: map of a coroutine handler for a pattern not registered before raises
\* no error, and a later dispatch of an address matching the pattern invokes
\* the handler.
C19_MapNewPattern ==
    /\ \A i \in 1 .. Len(calls) :
          (/\ calls[i].op = "map"
           /\ iscoroutinefunction(calls[i].handler)
           /\ \A j \in 1 .. i - 1 : calls[j].pattern # calls[i].pattern)
          => calls[i].raised = ""
    /\ (/\ disp_pc = "dispatched"
        /\ Len(calls) = 1
        /\ calls[1].op = "map"
        /\ iscoroutinefunction(calls[1].handler)
        /\ fnmatch(disp_address, calls[1].pattern))
       => \E n \in 1 .. Len(invoked) : invoked[n].handler = calls[1].handler

\* C20: after map(p, h1) and map(p, h2) with coroutine handlers neither call
\* has raised, and dispatching an address that matches p invokes h2 once and
\* h1 not at all.
C20_OneHandlerPerPattern ==
    (/\ Len(calls) = 2
     /\ calls[1].op = "map" /\ calls[2].op = "map"
     /\ calls[1].pattern = calls[2].pattern
     /\ iscoroutinefunction(calls[1].handler) /\ iscoroutinefunction(calls[2].handler)
     /\ calls[1].handler # calls[2].handler)
    => /\ calls[1].raised = "" /\ calls[2].raised = ""
       /\ (disp_pc = "dispatched" /\ fnmatch(disp_address, calls[1].pattern))
          => invoked = << [handler |-> calls[2].handler, address |-> disp_address,
                           arguments |-> disp_args] >>

\* C21: for every address starting with '/' and every list of arguments that
\* create_osc_message accepts, the byte length of the message it returns is a
\* multiple of 4.
C21_LengthMultipleOf4 ==
    (osc_pc \in { "created", "parsed" } /\ message_byte.err = "")
    => Len(message_byte.out) % 4 = 0

\* a message was created whose address, tag block and string argument each
\* needed padding: "/a" with 42, "hi", "é"
C21_PaddedCreated ==
    /\ osc_pc = "created"
    /\ message_byte.err = ""
    /\ address = << 47, 97 >>
    /\ args = << IntArg(42), StrArg(<< 104, 105 >>), StrArg(<< 233 >>) >>
    /\ Len(message_byte.out) = 24

\* C22: a message whose address does not start with '/' is rejected with a
\* ValueError when the send loop serializes it, and no byte of it is written:
\* every message taken from the buffer is either written or recorded as
\* failed, one with such an address is recorded with the ValueError and is
\* not among the messages written, and every frame ever written carries a
\* message whose address starts with '/'.
C22_InvalidAddressNotSent ==
    /\ \A i \in 1 .. Len(wire) : startswith(slip_decode(wire[i].frame).out, 47)
    /\ \A i \in 1 .. Len(dequeued) :
           \/ \E j \in 1 .. Len(wire) : wire[j].id = dequeued[i].id
           \/ \E j \in 1 .. Len(failed) : failed[j].id = dequeued[i].id
    /\ \A i \in 1 .. Len(failed) :
           ~startswith(failed[i].address, 47)
           => /\ failed[i].why = "ValueError"
              /\ \A j \in 1 .. Len(wire) : wire[j].id # failed[i].id

\* the message "a" was queued behind "/a": "/a" was written, "a" was taken
\* by the same loop, raised ValueError and left nothing on the wire
C22_InvalidRejected ==
    \E i \in 1 .. Len(failed) :
        /\ failed[i].address = << 97 >>
        /\ failed[i].why = "ValueError"
        /\ Len(wire) = 1
        /\ wire[1].id < failed[i].id
        /\ \A j \in 1 .. Len(wire) : wire[j].id # failed[i].id

\* the call create_osc_message("/example", 42, 3.14, "hi") has been made
C23_Called ==
    /\ osc_pc \in { "created", "parsed" }
    /\ address = << 47, 101, 120, 97, 109, 112, 108, 101 >>
    /\ args = << IntArg(42), FloatArg(<< 64, 72, 245, 195 >>, 1), StrArg(<< 104, 105 >>) >>

\* C23 as stated: create_osc_message("/example", 42, 3.14, "hi") returns the
\* address block "/example" and four NUL bytes, the tag block ",ifs" and three
\* NUL bytes, 42 in 4 bytes most significant first, the 4 bytes of the single
\* nearest to 3.14 (0x4048F5C3), and "hi" and two NUL bytes.
C23_ExampleAsStated ==
    C23_Called
    => message_byte =
         [err |-> "",
          out |-> << 47, 101, 120, 97, 109, 112, 108, 101, 0, 0, 0, 0 >>
                  \o << 44, 105, 102, 115, 0, 0, 0 >>
                  \o << 0, 0, 0, 42 >>
                  \o << 64, 72, 245, 195 >>
                  \o << 104, 105, 0, 0 >>]

\* C23 amended: the tag block is ",ifs" and FOUR NUL bytes (the terminator
\* and three bytes of padding, 8 bytes); the other blocks are as stated and
\* the message is 32 bytes long.
C23_Example ==
    C23_Called
    => message_byte =
         [err |-> "",
          out |-> << 47, 101, 120, 97, 109, 112, 108, 101, 0, 0, 0, 0 >>
                  \o << 44, 105, 102, 115, 0, 0, 0, 0 >>
                  \o << 0, 0, 0, 42 >>
                  \o << 64, 72, 245, 195 >>
                  \o << 104, 105, 0, 0 >>]

\* the message of the example was created
C23_ExampleCreated ==
    /\ osc_pc = "created"
    /\ address = << 47, 101, 120, 97, 109, 112, 108, 101 >>
    /\ args = << IntArg(42), FloatArg(<< 64, 72, 245, 195 >>, 1), StrArg(<< 104, 105 >>) >>
    /\ Len(message_byte.out) = 32

\* C24: parse_osc_message returns (None, None) for a buffer that starts with
\* '/' and holds no NUL byte to end the address.
C24_NoAddressTerminator ==
    (/\ osc_pc = "handled"
     /\ startswith(osc_data, 47)
     /\ \A i \in 1 .. Len(osc_data) : osc_data[i] # 0)
    => parsed.none

\* the index of the byte after the padded address of a buffer whose address
\* is NUL-terminated, where the ',' of the type tags belongs
C25_TagsAt == align4(PyFind(osc_data, 0, 0) + 1)

\* C25: parse_osc_message returns (None, None) for a buffer whose address is
\* NUL-terminated and is not followed by the ',' of a type tag string.
C25_NoTypeTagMarker ==
    (/\ osc_pc = "handled"
     /\ startswith(osc_data, 47)
     /\ PyFind(osc_data, 0, 0) # -1
     /\ ~(C25_TagsAt < Len(osc_data) /\ PyAt(osc_data, C25_TagsAt) = 44))
    => parsed.none

\* some argument declared by type_tags from tag i on, its payload expected at
\* index pos, reaches past the end of bytes: fewer than 4 bytes are left for
\* an 'i' or an 'f', or no NUL byte is left to end an 's'
RECURSIVE C26_Overruns(_, _, _, _)
C26_Overruns(bytes, type_tags, i, pos) ==
    IF i > Len(type_tags) THEN FALSE
    ELSE IF type_tags[i] \in { 105, 102 }
         THEN \/ pos + 4 > Len(bytes)
              \/ C26_Overruns(bytes, type_tags, i + 1, pos + 4)
    ELSE IF type_tags[i] = 115
         THEN \/ PyFind(bytes, 0, pos) = -1
              \/ C26_Overruns(bytes, type_tags, i + 1, align4(PyFind(bytes, 0, pos) + 1))
    ELSE C26_Overruns(bytes, type_tags, i + 1, pos)

\* the buffer has a terminated address and a terminated type tag string, and
\* an argument the tags declare reaches past its end
C26_Truncated ==
    /\ startswith(osc_data, 47)
    /\ PyFind(osc_data, 0, 0) # -1
    /\ C25_TagsAt < Len(osc_data)
    /\ PyAt(osc_data, C25_TagsAt) = 44
    /\ PyFind(osc_data, 0, C25_TagsAt) # -1
    /\ LET type_tag_end == PyFind(osc_data, 0, C25_TagsAt)
       IN  C26_Overruns(osc_data, PySlice(osc_data, C25_TagsAt + 1, type_tag_end), 1,
                        align4(type_tag_end + 1))

\* C26: parse_osc_message returns (None, None) whenever a type tag declares
\* an argument whose payload reaches past the end of the buffer: a cut-off
\* integer or float, or a string without its NUL byte.
C26_TruncatedPayload ==
    (osc_pc = "handled" /\ C26_Truncated) => parsed.none

\* C27: parse_osc_message accepts a message of a padded address and an empty
\* type tag string (",", its terminator and padding) and returns the address
\* with an empty list of arguments.
C27_AddressOnly ==
    \A a \in { b \in OscAddresses : startswith(b, 47) } :
        (/\ osc_pc = "handled"
         /\ osc_data = pad4(utf8_encode(a) \o << 0 >>) \o << 44, 0, 0, 0 >>)
        => parsed = [address |-> a, arguments |-> << >>, none |-> FALSE]

\* the message "/example" without arguments was parsed
C27_AddressOnlyParsed ==
    /\ osc_pc = "handled"
    /\ osc_data = << 47, 101, 120, 97, 109, 112, 108, 101, 0, 0, 0, 0, 44, 0, 0, 0 >>
    /\ ~parsed.none

\* C28: for every input the output of slip_encode begins and ends with 0xC0,
\* holds no other 0xC0 byte, and is at least len(input) + 2 bytes long.
C28_EncodedFrame ==
    slip_pc \in { "encoded", "decoded", "feeding" }
    => /\ Len(encoded) >= Len(data) + 2
       /\ encoded[1] = SLIP_END
       /\ encoded[Len(encoded)] = SLIP_END
       /\ \A i \in 2 .. Len(encoded) - 1 : encoded[i] # SLIP_END

\* an input holding 0xC0 and 0xDB was encoded into a longer frame
C28_SentinelEscaped ==
    /\ slip_pc = "encoded"
    /\ data = << SLIP_END, 65, SLIP_ESC >>
    /\ Len(encoded) = 7

\* C29: slip_decode reports an error when an escape byte 0xDB is followed by
\* a byte other than 0xDC or 0xDD; it does not return a decoded payload.
C29_FramingError ==
    (/\ slip_pc = "received"
     /\ \E i \in 1 .. Len(data) - 1 :
            data[i] = SLIP_ESC /\ data[i + 1] \notin { SLIP_ESC_END, SLIP_ESC_ESC })
    => decoded.err

\* C30: when slip_encode(b) is given to process_slip_message in consecutive
\* chunks, each call on the previous remainder followed by the next chunk, no
\* frame is returned before the last byte has been given and, once it has,
\* exactly one frame equal to slip_encode(b), with an empty remainder.
C30_Segmentation ==
    slip_pc \in { "encoded", "feeding" }
    => IF slip_fed < Len(encoded)
       THEN slip_messages = << >>
       ELSE slip_messages = << encoded >> /\ slip_buffer = << >>

\* a frame of 7 bytes was given in three chunks or more and came out whole
C30_SplitReassembled ==
    /\ slip_pc = "feeding"
    /\ Len(encoded) = 7
    /\ slip_fed = 7
    /\ slip_reads >= 3
    /\ slip_messages = << encoded >>

\* C31: for a buffer made of k complete frames back to back (each 0xC0, a
\* payload without 0xC0, 0xC0), process_slip_message returns exactly those k
\* frames in buffer order and an empty remainder.
C31_BackToBack ==
    \A frames \in SeqUpTo(SegFrames, MaxFrames) :
        (slip_pc = "segmented" /\ data = Concat(frames))
        => slip_messages = frames /\ slip_buffer = << >>

\* C0 'AB' C0 C0 'CD' C0 came out as the two frames C0 'AB' C0 and C0 'CD' C0
C31_TwoFrames ==
    /\ slip_pc = "segmented"
    /\ data = << SLIP_END, 65, 66, SLIP_END, SLIP_END, 67, 68, SLIP_END >>
    /\ slip_messages = << << SLIP_END, 65, 66, SLIP_END >>, << SLIP_END, 67, 68, SLIP_END >> >>
    /\ slip_buffer = << >>

\* C39: process_slip_message partitions its input: the frames it returns,
\* concatenated in order and followed by the remainder, are the input buffer;
\* every frame has at least 2 bytes and ends with 0xC0; the remainder holds no
\* 0xC0 at index 1 or later.
C39_Partition ==
    slip_pc = "segmented"
    => /\ Concat(slip_messages) \o slip_buffer = data
       /\ \A i \in 1 .. Len(slip_messages) :
              /\ Len(slip_messages[i]) >= 2
              /\ slip_messages[i][Len(slip_messages[i])] = SLIP_END
       /\ \A j \in 2 .. Len(slip_buffer) : slip_buffer[j] # SLIP_END

\* a buffer with bytes before its first 0xC0 and after its last came out as
\* one frame and a remainder
C39_FrameAndRemainder ==
    /\ slip_pc = "segmented"
    /\ data = << 65, SLIP_END, 47 >>
    /\ slip_messages = << << 65, SLIP_END >> >>
    /\ slip_buffer = << 47 >>

\* C40: slip_decode does not read past the end of a frame returned by
\* process_slip_message: the frame ends with 0xC0, so an escape byte 0xDB is
\* never its last byte.
C40_NoDanglingEscape ==
    slip_pc = "segmented"
    => \A i \in 1 .. Len(slip_messages) :
           /\ slip_messages[i][Len(slip_messages[i])] # SLIP_ESC
           /\ ~ slip_decode(slip_messages[i]).err

\* the frame C0 DB C0, an escape byte right before the closing 0xC0, was
\* returned and slip_decode takes it without reading past its end
C40_EscapeBeforeEnd ==
    /\ slip_pc = "segmented"
    /\ data = << SLIP_END, SLIP_ESC, SLIP_END >>
    /\ slip_messages = << data >>
    /\ ~ slip_decode(data).err

\* the listen task of run r is inside the for loop of listen() and awaits the
\* dispatch of the frame at the head of its list
C35_InHandler(r) ==
    /\ listen_pc[r] = "frames"
    /\ ~ parse_osc_message(slip_decode(Head(rx_messages[r])).out).none

\* C35: frames are handled one at a time and in arrival order: two handler
\* invocations for frames of the same connection never overlap.
C35_OneAtATime ==
    \A r, q \in Runs :
        (r # q /\ C35_InHandler(r) /\ C35_InHandler(q))
        => listen_reader[r] # listen_reader[q]

\* the frame the listen task of run r handles next fails OSC parsing
C32_HeadFails(r) ==
    /\ listen_pc[r] = "frames"
    /\ ~ slip_decode(Head(rx_messages[r])).err
    /\ parse_osc_message(slip_decode(Head(rx_messages[r])).out).none

\* C32: a received frame whose content fails OSC parsing is reported and
\* skipped: the step that handles it invokes no handler, prints the error,
\* leaves the receive loop running and keeps the frames after it for the for
\* loop, which dispatches them.
C32_ParseFailureSkipped ==
    [][\A r \in Runs :
          (/\ C32_HeadFails(r)
           /\ rx_messages'[r] # rx_messages[r]
           /\ UNCHANGED << shutdown_pc, n_shutdowns >>)
          => /\ dispatched' = dispatched
             /\ [where |-> "parse_osc_message", by |-> r, outcome |-> "printed"] \in errors'
             /\ rx_messages'[r] = Tail(rx_messages[r])
             /\ listen_pc'[r] = IF Tail(rx_messages[r]) = << >> THEN "loop" ELSE "frames"]_vars

\* the peer sent C0 'A' C0 and then the frame of "/a": the first was reported,
\* the second dispatched, and the receive loop is still running
C32_LaterFrameDispatched ==
    /\ sent_frames = << << SLIP_END, 65, SLIP_END >>,
                        slip_encode(create_osc_message(<< 47, 97 >>, << >>).out) >>
    /\ [where |-> "parse_osc_message", by |-> 1, outcome |-> "printed"] \in errors
    /\ dispatched = << [address |-> << 47, 97 >>, arguments |-> << >>] >>
    /\ listen_pc[1] \in { "loop", "wait" }
    /\ running

\* C33: every exception the client catches and does not raise again is
\* printed before it is dropped.
C33_SuppressedReported ==
    \A e \in errors : e.outcome # "silent"

\* C34: when the peer closes the connection the receive loop ends, and that
\* alone ends neither the send loop nor run(): before any shutdown() the send
\* loop of the same run() is still running and run() is still waiting, unless
\* the send loop has ended with an exception of its own.
C34_SendLoopKeepsRunning ==
    \A r \in Runs :
        (n_shutdowns = 0 /\ listen_pc[r] = "done")
        => /\ send_pc[r] \in { "start", "loop", "raised" }
           /\ send_pc[r] # "raised" => run_pc[r] = "gather"

\* the peer closed, the receive loop has ended, and the send loop has written
\* a message and is still running, with run() waiting
C34_PeerClosedStillSending ==
    /\ n_shutdowns = 0
    /\ conns # << >>
    /\ conns[1].eof
    /\ listen_pc[1] = "done"
    /\ send_pc[1] = "loop"
    /\ run_pc[1] = "gather"
    /\ running
    /\ wire # << >>

\* C37: run() starts the send and receive loops only after connect() has
\* succeeded: a task exists only for a run() past its connect, with a reader
\* and a writer set; while no run() has connected running is false; and
\* running = true implies that a reader and a writer are set.
C37_LoopsAfterConnect ==
    /\ running => reader # 0 /\ writer # 0
    /\ \A r \in Runs :
           (send_pc[r] # "none" \/ listen_pc[r] # "none")
           => /\ run_pc[r] \notin { "idle", "connect" }
              /\ reader # 0
              /\ writer # 0
    /\ (\A r \in Runs : send_pc[r] = "none" /\ listen_pc[r] = "none") => ~running

\* the connection attempt of run() failed: run() has returned, no task was
\* created, running is false and no reader is set
C37_ConnectFailedNoLoops ==
    /\ [where |-> "run", by |-> 1, outcome |-> "silent"] \in errors
    /\ run_pc[1] = "done"
    /\ send_pc[1] = "none"
    /\ listen_pc[1] = "none"
    /\ ~running
    /\ reader = 0
    /\ writer = 0

\* C38: an exception raised by a handler during dispatch ends the receive
\* loop, which dispatches no later frame, and is handed to run(), which raises
\* it; the send loop is left running until shutdown().
C38_HandlerExceptionEscapes ==
    \A r \in Runs :
        ([where |-> "handler", by |-> r, outcome |-> "raised"] \in errors /\ n_shutdowns = 0)
        => /\ listen_pc[r] = "raised"
           /\ rx_messages[r] = << >>
           /\ run_pc[r] \in { "gather", "raised" }
           /\ send_pc[r] \in { "start", "loop", "raised" }

\* two frames arrived, the handler raised on the first: the second was not
\* dispatched, run() has raised and the send loop is still running
C38_RunRaisedSendRunning ==
    /\ [where |-> "handler", by |-> 1, outcome |-> "raised"] \in errors
    /\ Len(sent_frames) = 2
    /\ conns[1].inbound = << >>
    /\ Len(dispatched) = 1
    /\ listen_pc[1] = "raised"
    /\ run_pc[1] = "raised"
    /\ send_pc[1] = "loop"
    /\ running

====
